---- MODULE Spec2Model ----
(***************************************************************************)
(* Model of the restaurant pipeline of semantic-review-heatmaps:           *)
(*   - backend/data_process.py : emoji cleaning, duplicate removal         *)
(*   - IDscraper_test.py       : grid sampler and the ingestion loop       *)
(*   - demo/RestaurantSearchEngine.py : similarity search over the index   *)
(*   - backend/app.py          : the /api/search endpoint of the backend   *)
(*   - demo/app.py             : the /api/search and /api/heatmap endpoints *)
(*   - demo/heatmap_service.py : the heatmap tiler and its endpoint        *)
(*                                                                         *)
(* Texts are sequences of one-character strings.  Coordinates are integers *)
(* in units of 1e-4 degree, so the 0.001 degree proximity threshold of      *)
(* is_same_location is 10 units; distances on the ground are in metres.    *)
(***************************************************************************)
EXTENDS Integers, Sequences, FiniteSets, TLC

VARIABLES
    \* ---- backend/data_process.py ----
    db,          \* the table handed to data_process / remove_duplicates
    clean_db,    \* the working table (clean_db in data_process)
    dpc,         \* position in data_process
    pass,        \* 1: first run on db, 2: run on the output of the first run
    dedup_in,    \* argument of the last remove_duplicates call
    group,       \* per row of dedup_in: index of the row it was merged into
    origin,      \* per row of clean_db: index of the row of dedup_in it is
    first_out,   \* table returned by the first data_process run
    log,         \* numbers printed by data_process / remove_duplicates
    \* ---- IDscraper_test.py ----
    cfg,         \* CONFIGURATION: bounding box, step and radius
    lat, lon,    \* loop variables of generate_grid
    lon_step,    \* longitude increment of the current row
    points,      \* points / grid_points
    spc,         \* position in the script
    idx,         \* position of the for loop in grid_points
    api_calls,   \* api_calls counter
    queried,     \* sampling points for which a catalog call was issued
    failed,      \* sampling points whose catalog call raised
    collected,   \* every row built from a response, in collection order
    rows_buffer, \* rows_buffer
    output_csv,  \* data rows of OUTPUT_CSV
    \* ---- demo/RestaurantSearchEngine.py ----
    engine_df,   \* self.df: one row per review, with its embedding
    results_file,\* content of the file at output_path
    user_input,  \* argument of the last search call
    aggregation, \* argument of the last search call
    output_path, \* argument of the last search call
    json_result, \* value returned by the last search call
    epc,         \* "ready", "returned" or the exception raised by search
    \* ---- backend/app.py ----
    df,          \* the global df, without its column 'similarity_score'
    similarity_score, \* the column 'similarity_score' of the global df
    b_pc,        \* per request: position in search
    b_query,     \* per request: query
    b_similarities, \* per request: similarities
    b_response,  \* per request: status and body of the response
    \* ---- demo/heatmap_service.py, demo/app.py ----
    restaurant_data, \* the global restaurant_data
    h_pc,        \* position in get_heatmap / calculate_dynamic_grid_heatmap
    h_args,      \* request.args of the heatmap request
    h_table,     \* the table calculate_dynamic_grid_heatmap has read
    h_threshold, \* threshold / similarity_threshold
    h_bounds,    \* bounds
    h_grid_size, \* grid_size
    h_heatmap,   \* heatmap_points / heatmap_data
    h_tiles,     \* tiles_data
    h_response,  \* status and body of the response of get_heatmap
    \* ---- demo/app.py ----
    s_pc,        \* per search request: position in search
    s_body,      \* per search request: the JSON body
    s_results,   \* per search request: results
    s_response,  \* per search request: status and body of the response
    \* ---- services/data_process.py, start-up of backend/app.py ----
    input_csv,   \* data rows of INPUT_CSV, one row per review
    reviews_df,  \* df of services/data_process.py
    df_dedup,    \* df_dedup
    df_agg,      \* df_agg
    aggregated_csv, \* data rows of AGGREGATED_CSV (DB_PATH of backend/app.py)
    app_df,      \* df of backend/app.py while the module level runs
    review_embeddings, \* review_embeddings of backend/app.py
    a_pc,        \* position in the script, then in the start-up
    \* ---- backend/update_db.py ----
    u_db,        \* the table object handed to update_db (db)
    u_before,    \* the value of that table when update_db was called
    u_zone_name, \* zone_name
    u_pc,        \* position in update_db
    u_calls,     \* the external requests issued by the current call
    u_nearby,    \* the response of the Nearby Search request
    u_details,   \* per place of the response: the Place Details response
    u_scrape,    \* what basic_scrape returned, or that it raised
    u_result,    \* the table update_db returned
    u_log,       \* the last message update_db printed
    u_added,     \* lower-cased zones for which earlier calls added rows
    u_n          \* number of update_db calls so far

dedupVars == <<db, clean_db, dpc, pass, dedup_in, group, origin, first_out, log>>
scraperVars == <<cfg, lat, lon, lon_step, points, spc, idx, api_calls,
                 queried, failed, collected, rows_buffer, output_csv>>
searchVars == <<engine_df, results_file, user_input, aggregation,
                output_path, json_result, epc>>
backendVars == <<df, similarity_score, b_pc, b_query, b_similarities,
                 b_response>>
heatmapVars == <<restaurant_data, h_pc, h_args, h_table, h_threshold,
                 h_bounds, h_grid_size, h_heatmap, h_tiles, h_response>>
demoVars == <<s_pc, s_body, s_results, s_response>>
aggVars == <<input_csv, reviews_df, df_dedup, df_agg, aggregated_csv, app_df,
             review_embeddings, a_pc>>
updateVars == <<u_db, u_before, u_zone_name, u_pc, u_calls, u_nearby,
                u_details, u_scrape, u_result, u_log, u_added, u_n>>
vars == <<dedupVars, scraperVars, searchVars, backendVars, heatmapVars,
          demoVars, aggVars, updateVars>>

\* what the actions of one program leave alone: the other programs
notDedup ==
    <<scraperVars, searchVars, backendVars, heatmapVars, demoVars, aggVars, updateVars>>
notScraper ==
    <<dedupVars, searchVars, backendVars, heatmapVars, demoVars, aggVars, updateVars>>
notSearch ==
    <<dedupVars, scraperVars, backendVars, heatmapVars, demoVars, aggVars, updateVars>>
notBackend ==
    <<dedupVars, scraperVars, searchVars, heatmapVars, demoVars, aggVars, updateVars>>
notHeatmap ==
    <<dedupVars, scraperVars, searchVars, backendVars, demoVars, aggVars, updateVars>>
notDemo == <<dedupVars, scraperVars, backendVars, aggVars, updateVars>>
notAgg ==
    <<dedupVars, scraperVars, searchVars, backendVars, heatmapVars, demoVars,
      updateVars>>
notUpdate ==
    <<dedupVars, scraperVars, searchVars, backendVars, heatmapVars, demoVars,
      aggVars>>

-----------------------------------------------------------------------------
(* Bounds of the model *)

\* longest batch of records handed to the deduplicator
MaxRows == 3

-----------------------------------------------------------------------------
(* Characters and strings *)

\* a missing value (NaN / None) in a text column
NaN == <<"<NaN>">>
\* a missing place_id
NoId == "<NaN>"

isna(x) == x = NaN

\* str.lower on one character
lower(c) == CASE c = "A" -> "a" [] c = "B" -> "b" [] OTHER -> c

\* \w of the re module
IsWordChar(c) == c \in {"a", "b", "x", "y", "A", "B"}
\* \s of the re module
IsSpaceChar(c) == c \in {" ", "NL"}
\* the character class of emoji_pattern
IsEmojiChar(c) == c = "EMOJI"

RECURSIVE MapLower(_)
MapLower(s) == IF s = <<>> THEN <<>> ELSE <<lower(Head(s))>> \o MapLower(Tail(s))

\* re.sub(r'[^\w\s]', '', s)
StripPunctuation(s) == SelectSeq(s, LAMBDA c : IsWordChar(c) \/ IsSpaceChar(c))

\* emoji_pattern.sub('', s)
StripEmoji(s) == SelectSeq(s, LAMBDA c : ~IsEmojiChar(c))

\* re.sub(r'\s+', ' ', s): every maximal run of whitespace becomes one space
RECURSIVE CollapseSpace(_)
CollapseSpace(s) ==
    IF s = <<>> THEN <<>>
    ELSE IF IsSpaceChar(Head(s))
         THEN IF Len(s) > 1 /\ IsSpaceChar(s[2])
              THEN CollapseSpace(Tail(s))
              ELSE <<" ">> \o CollapseSpace(Tail(s))
         ELSE <<Head(s)>> \o CollapseSpace(Tail(s))

RECURSIVE LStrip(_)
LStrip(s) == IF s # <<>> /\ IsSpaceChar(Head(s)) THEN LStrip(Tail(s)) ELSE s

RECURSIVE RStrip(_)
RStrip(s) ==
    IF s # <<>> /\ IsSpaceChar(s[Len(s)]) THEN RStrip(SubSeq(s, 1, Len(s) - 1)) ELSE s

\* str.strip()
Strip(s) == RStrip(LStrip(s))

\* str.split('\n'): the pieces between newlines; ''.split('\n') is ['']
RECURSIVE SplitFrom(_, _)
SplitFrom(s, cur) ==
    IF s = <<>> THEN <<cur>>
    ELSE IF Head(s) = "NL" THEN <<cur>> \o SplitFrom(Tail(s), <<>>)
         ELSE SplitFrom(Tail(s), Append(cur, Head(s)))

Split(s) == SplitFrom(s, <<>>)

\* '\n'.join(list)
RECURSIVE Join(_)
Join(list) ==
    IF list = <<>> THEN <<>>
    ELSE IF Len(list) = 1 THEN list[1]
         ELSE list[1] \o <<"NL">> \o Join(Tail(list))

Abs(n) == IF n < 0 THEN -n ELSE n

Range(s) == {s[i] : i \in DOMAIN s}

-----------------------------------------------------------------------------
(* backend/data_process.py *)

\* lat_diff < 0.001, in units of 1e-4 degree.  A difference of exactly 0.001
\* is decided by the rounding of the floating-point subtraction; the records
\* below stay away from it (differences of 0, 8, 12 and 16 units)
PROXIMITY == 10

remove_emoji(text) ==
    IF isna(text) THEN <<>> ELSE Strip(CollapseSpace(StripEmoji(text)))

\* the three text columns of clean_emojis, for one row
clean_row(r) ==
    [r EXCEPT !.place_name = remove_emoji(r.place_name),
              !.review_text = remove_emoji(r.review_text),
              !.zone = remove_emoji(r.zone)]

RECURSIVE clean_emojis(_)
clean_emojis(t) ==
    IF t = <<>> THEN <<>> ELSE <<clean_row(Head(t))>> \o clean_emojis(Tail(t))

normalize_name(name) ==
    IF isna(name) THEN <<>>
    ELSE Strip(CollapseSpace(StripPunctuation(MapLower(name))))

is_same_location(lat1, lng1, lat2, lng2) ==
    Abs(lat1 - lat2) < PROXIMITY /\ Abs(lng1 - lng2) < PROXIMITY

\* is_duplicate without the comparison of the names
is_duplicate_location_only(row1, row2) ==
    is_same_location(row1.latitude, row1.longitude,
                     row2.latitude, row2.longitude)

is_duplicate(row1, row2) ==
    IF normalize_name(row1.place_name) # normalize_name(row2.place_name)
    THEN FALSE
    ELSE is_same_location(row1.latitude, row1.longitude,
                          row2.latitude, row2.longitude)

\* first loop of merge_reviews: all_reviews
RECURSIVE AllReviews(_)
AllReviews(reviews_list) ==
    IF reviews_list = <<>> THEN <<>>
    ELSE LET reviews == Head(reviews_list) IN
         (IF ~isna(reviews) /\ Strip(reviews) # <<>> THEN Split(reviews) ELSE <<>>)
         \o AllReviews(Tail(reviews_list))

\* second loop of merge_reviews: unique_reviews
RECURSIVE UniqueReviews(_, _)
UniqueReviews(all_reviews, seen) ==
    IF all_reviews = <<>> THEN <<>>
    ELSE LET review == Strip(Head(all_reviews)) IN
         IF review # <<>> /\ review \notin seen
         THEN <<review>> \o UniqueReviews(Tail(all_reviews), seen \cup {review})
         ELSE UniqueReviews(Tail(all_reviews), seen)

merge_reviews(reviews_list) == Join(UniqueReviews(AllReviews(reviews_list), {}))

\* inner loop of remove_duplicates for row i: the rows j > i, not yet removed,
\* that are duplicates of row i, in increasing order
DuplicatesOf(t, i, to_remove) ==
    SelectSeq([k \in 1..(Len(t) - i) |-> i + k],
              LAMBDA j : j \notin to_remove /\ is_duplicate(t[i], t[j]))

\* MergeInto with the scalar fields taken from the last duplicate found
MergeIntoLastWins(t, i, dups) ==
    IF Len(dups) = 0 THEN t
    ELSE LET merged == merge_reviews(<<t[i].review_text>>
                           \o [k \in 1..Len(dups) |-> t[dups[k]].review_text])
         IN [t EXCEPT ![i] = [t[dups[Len(dups)]] EXCEPT
                                  !.review_text = merged,
                                  !.review_count = Len(Split(merged))]]

\* body of the outer loop for a row i that has not been removed
MergeInto(t, i, dups) ==
    IF Len(dups) = 0 THEN t
    ELSE LET merged == merge_reviews(<<t[i].review_text>>
                           \o [k \in 1..Len(dups) |-> t[dups[k]].review_text])
         IN [t EXCEPT ![i].review_text = merged,
                      ![i].review_count = Len(Split(merged))]

\* outer loop of remove_duplicates from row i on: the table with the merged
\* rows, the set to_remove, and for every row the row it was merged into
RECURSIVE DedupLoop(_, _, _, _)
DedupLoop(t, i, to_remove, grp) ==
    IF i > Len(t) THEN [table |-> t, to_remove |-> to_remove, group |-> grp]
    ELSE IF i \in to_remove THEN DedupLoop(t, i + 1, to_remove, grp)
    ELSE LET dups == DuplicatesOf(t, i, to_remove) IN
         DedupLoop(MergeInto(t, i, dups), i + 1, to_remove \cup Range(dups),
                   [j \in DOMAIN grp |-> IF j \in Range(dups) THEN i ELSE grp[j]])

\* the rows of t at the positions listed in keep, renumbered from 1
\* (reset_index(drop=True))
Take(t, keep) == [k \in 1..Len(keep) |-> t[keep[k]]]

\* db.drop(list(to_remove)): the positions that stay
Kept(t, to_remove) ==
    SelectSeq([k \in 1..Len(t) |-> k], LAMBDA k : k \notin to_remove)

\* table: the returned table; removed: len(to_remove), printed when positive;
\* group, kept: which row each input row was merged into, and the input
\* positions of the returned rows
remove_duplicates(t) ==
    LET r == DedupLoop(t, 1, {}, [j \in 1..Len(t) |-> j])
    IN [table |-> Take(r.table, Kept(t, r.to_remove)),
        removed |-> Cardinality(r.to_remove),
        group |-> r.group,
        kept |-> Kept(t, r.to_remove)]

\* clean_db.dropna(subset=['place_id', 'place_name']): the positions that stay
dropna(t) ==
    SelectSeq([k \in 1..Len(t) |-> k],
              LAMBDA k : t[k].place_id # NoId /\ ~isna(t[k].place_name))

\* the whole of data_process on table t
data_process(t) ==
    LET cleaned == clean_emojis(t)
        dd == remove_duplicates(cleaned)
        keep == dropna(dd.table)
        out == Take(dd.table, keep)
    IN [table |-> out,
        cleaned |-> cleaned,
        group |-> dd.group,
        origin |-> [k \in 1..Len(keep) |-> dd.kept[keep[k]]],
        log |-> <<<<"Nettoyage", Len(t)>>>>
                \o (IF dd.removed > 0 THEN <<<<"doublons", dd.removed>>>> ELSE <<>>)
                \o <<<<"termine", Len(out)>>>>]

-----------------------------------------------------------------------------
(* The records the deduplicator is run on *)

Row(id, name, la, lo, review, count) ==
    [place_id |-> id, place_name |-> name, latitude |-> la, longitude |-> lo,
     google_maps_uri |-> <<"m", id>>, reviews_uri |-> <<"r", id>>,
     review_text |-> review, review_count |-> count, zone |-> <<"a">>]

\* "A! b", "a  b" (same normalized name "a b") and "b"
NameA1 == <<"A", "!", " ", "b">>
NameA2 == <<"a", " ", " ", "b">>
NameB == <<"b">>

Records ==
    { Row("p1", NameA1, 0, 0, <<"x">>, 1),
      \* 0.0008 degree north of p1: a duplicate of p1 and of p3
      Row("p2", NameA2, 8, 0, <<"x", "NL", "y">>, 2),
      \* 0.0016 degree north of p1: same name as p1, not the same location
      Row("p3", NameA2, 16, 0, <<"y">>, 1),
      \* same location as p1, other name
      Row("p4", NameB, 0, 0, <<>>, 0),
      \* same name and latitude as p1, 0.0012 degree east
      Row("p5", NameA1, 0, 12, NaN, 0),
      \* no place_name
      Row("p6", NaN, 0, 0, <<"x">>, 1),
      \* no place_id, otherwise a duplicate of p1
      Row(NoId, NameA1, 0, 0, <<"y">>, 1),
      \* a duplicate of p4 whose review is a lone emoji
      Row("p8", NameB, 8, 0, <<" ", "EMOJI">>, 1) }

RECURSIVE Batches(_)
Batches(n) ==
    IF n = 0 THEN {<<>>}
    ELSE LET shorter == Batches(n - 1) IN
         shorter \cup {Append(b, r) : b \in {s \in shorter : Len(s) = n - 1}, r \in Records}

NoGroup == <<>>

\* a batch of records has been loaded
TableLoaded ==
    /\ db \in Batches(MaxRows)
    /\ clean_db = <<>>
    /\ dpc = "loaded"
    /\ pass = 1
    /\ dedup_in = <<>>
    /\ group = NoGroup
    /\ origin = <<>>
    /\ first_out = <<>>
    /\ log = <<>>

\* remove_duplicates(db) called on the loaded table
RemoveDuplicatesCall ==
    /\ dpc = "loaded"
    /\ LET dd == remove_duplicates(db) IN
        /\ clean_db' = dd.table
        /\ dedup_in' = db
        /\ group' = dd.group
        /\ origin' = dd.kept
        /\ log' = IF dd.removed > 0 THEN <<<<"doublons", dd.removed>>>> ELSE <<>>
    /\ dpc' = "deduplicated"
    /\ UNCHANGED <<db, pass, first_out>>
    /\ UNCHANGED notDedup

\* data_process(db) called on the loaded table
DataProcessCall ==
    /\ dpc = "loaded"
    /\ LET dp == data_process(db) IN
        /\ clean_db' = dp.table
        /\ dedup_in' = dp.cleaned
        /\ group' = dp.group
        /\ origin' = dp.origin
        /\ log' = dp.log
        /\ first_out' = dp.table
    /\ dpc' = "processed"
    /\ UNCHANGED <<db, pass>>
    /\ UNCHANGED notDedup

\* data_process called on the table the first call returned
DataProcessAgain ==
    /\ dpc = "processed"
    /\ pass = 1
    /\ LET dp == data_process(clean_db) IN
        /\ db' = clean_db
        /\ clean_db' = dp.table
        /\ dedup_in' = dp.cleaned
        /\ group' = dp.group
        /\ origin' = dp.origin
        /\ log' = dp.log
    /\ pass' = 2
    /\ UNCHANGED <<dpc, first_out>>
    /\ UNCHANGED notDedup

NextDedup ==
    \/ RemoveDuplicatesCall
    \/ DataProcessCall
    \/ DataProcessAgain


-----------------------------------------------------------------------------
(* IDscraper_test.py: grid utilities *)

\* metres per degree of latitude
METERS_PER_DEGREE == 111320

\* 1000 * math.cos(math.radians(latitude)), tabulated at the middle of every
\* band of five degrees: 2.5, 7.5, ..., 87.5
CosTable == <<999, 991, 976, 954, 924, 887, 843, 793, 737,
              676, 609, 537, 462, 383, 301, 216, 131, 44>>

CosPermille(latitude) ==
    LET band == (Abs(latitude) \div 50000) + 1
    IN IF band > Len(CosTable) THEN CosTable[Len(CosTable)] ELSE CosTable[band]

\* metres per degree of longitude at a latitude: 111_320 * cos(latitude)
MetersPerDegreeLon(latitude) == (METERS_PER_DEGREE * CosPermille(latitude)) \div 1000

\* the latitude step lost: every row starts at the same latitude
meters_to_lat_zero(meters) == 0

\* meters / 111_320, in units of 1e-4 degree
meters_to_lat(meters) == (meters * 10000) \div METERS_PER_DEGREE

\* the cosine of the latitude multiplied in instead of divided out
meters_to_lon_cos_times(meters, latitude) ==
    (((meters * 10000) \div METERS_PER_DEGREE) * CosPermille(latitude)) \div 1000

\* meters / (111_320 * cos(latitude)), in units of 1e-4 degree
meters_to_lon(meters, latitude) == (meters * 10000) \div MetersPerDegreeLon(latitude)

-----------------------------------------------------------------------------
(* IDscraper_test.py: CONFIGURATION and the script *)

\* MAX_API_CALLS (800 in the script), scaled to the grids of the model
MAX_API_CALLS == 3
\* the flush threshold of rows_buffer (500 in the script), scaled likewise
FLUSH_ROWS == 2
\* generate_grid is cut off after this many points when it does not terminate
MaxPoints == 7

\* LAT_MIN = 48.530, LON_MIN = 7.67
LAT_MIN == 485300
LON_MIN == 76700

\* extent of the bounding box north of LAT_MIN and east of LON_MIN
LatSpans == {0, 30, 75, 90}
LonSpans == {0, 50, 110}
\* GRID_STEP_METERS and SEARCH_RADIUS_METERS
Steps == {-450, 0, 450, 600}
Radii == {450, 600}

Configurations ==
    { [lat_min |-> LAT_MIN, lat_max |-> LAT_MIN + a,
       lon_min |-> LON_MIN, lon_max |-> LON_MIN + o,
       step_meters |-> s, radius |-> r] :
      a \in LatSpans, o \in LonSpans, s \in Steps, r \in Radii }

\* what service.places().searchNearby(...).execute() returns: the places of
\* the response, each with its number of reviews
Responses == {<<>>, <<1>>, <<0, 2>>}

\* the rows appended to rows_buffer for one response: one row per review
RECURSIVE RowsOf(_, _, _)
RowsOf(point, response, p) ==
    IF p > Len(response) THEN <<>>
    ELSE [k \in 1..response[p] |-> [point |-> point, place |-> p, review |-> k]]
         \o RowsOf(point, response, p + 1)

\* a row left in OUTPUT_CSV by an earlier run
OldRow == [point |-> 0, place |-> 1, review |-> 1]
InitialCsv == {<<>>, <<OldRow>>}

\* the limit tested one call too late
BudgetReachedLate(calls) == calls > MAX_API_CALLS

\* if api_calls >= MAX_API_CALLS: break
BudgetReached(calls) == calls >= MAX_API_CALLS

\* if len(rows_buffer) >= 500
BufferFull(buffer) == Len(buffer) >= FLUSH_ROWS

\* the file opened with mode="w": the rows already in it are replaced
to_csv_overwrite(file, buffer) == buffer

\* pd.DataFrame(rows_buffer).to_csv(OUTPUT_CSV, mode="a", header=False, ...)
to_csv_append(file, buffer) == file \o buffer

\* the script starts under one configuration, the CSV file exists
ScriptStarted ==
    /\ cfg \in Configurations
    /\ lat = cfg.lat_min
    /\ lon = cfg.lon_min
    /\ lon_step = 0
    /\ points = <<>>
    /\ spc = "grid_outer"
    /\ idx = 1
    /\ api_calls = 0
    /\ queried = <<>>
    /\ failed = <<>>
    /\ collected = <<>>
    /\ rows_buffer = <<>>
    /\ output_csv \in InitialCsv

loopVars == <<idx, api_calls, queried, failed, collected, rows_buffer, output_csv>>

\* generate_grid: while lat <= lat_max, start a row
GridRow ==
    /\ spc = "grid_outer"
    /\ lat <= cfg.lat_max
    /\ lon' = cfg.lon_min
    /\ lon_step' = meters_to_lon(cfg.step_meters, lat)
    /\ spc' = "grid_inner"
    /\ UNCHANGED <<cfg, lat, points, loopVars>>
    /\ UNCHANGED notScraper

\* generate_grid: while lon <= lon_max, append a point
GridPoint ==
    /\ spc = "grid_inner"
    /\ lon <= cfg.lon_max
    /\ Len(points) < MaxPoints
    /\ points' = Append(points, <<lat, lon>>)
    /\ lon' = lon + lon_step
    /\ UNCHANGED <<cfg, lat, lon_step, spc, loopVars>>
    /\ UNCHANGED notScraper

\* generate_grid: the row is finished, lat += meters_to_lat(step_meters)
GridRowEnd ==
    /\ spc = "grid_inner"
    /\ lon > cfg.lon_max
    /\ lat' = lat + meters_to_lat(cfg.step_meters)
    /\ spc' = "grid_outer"
    /\ UNCHANGED <<cfg, lon, lon_step, points, loopVars>>
    /\ UNCHANGED notScraper

\* generate_grid returns; grid_points = points
GridReturn ==
    /\ spc = "grid_outer"
    /\ lat > cfg.lat_max
    /\ spc' = "loop"
    /\ UNCHANGED <<cfg, lat, lon, lon_step, points, loopVars>>
    /\ UNCHANGED notScraper

\* one iteration of the main loop whose catalog call returns a response
CatalogCallReturns ==
    /\ spc = "loop"
    /\ idx <= Len(points)
    /\ ~BudgetReached(api_calls)
    /\ \E response \in Responses :
         LET buffer == rows_buffer \o RowsOf(idx, response, 1) IN
         /\ collected' = collected \o RowsOf(idx, response, 1)
         /\ IF BufferFull(buffer)
            THEN output_csv' = to_csv_append(output_csv, buffer) /\ rows_buffer' = <<>>
            ELSE output_csv' = output_csv /\ rows_buffer' = buffer
    /\ queried' = Append(queried, points[idx])
    /\ api_calls' = api_calls + 1
    /\ idx' = idx + 1
    /\ UNCHANGED <<cfg, lat, lon, lon_step, points, spc, failed>>
    /\ UNCHANGED notScraper

\* one iteration of the main loop whose catalog call raises: nothing catches
\* the exception and the script ends there
CatalogCallRaises ==
    /\ spc = "loop"
    /\ idx <= Len(points)
    /\ ~BudgetReached(api_calls)
    /\ queried' = Append(queried, points[idx])
    /\ failed' = Append(failed, idx)
    /\ spc' = "aborted"
    /\ UNCHANGED <<cfg, lat, lon, lon_step, points, idx, api_calls, collected,
                   rows_buffer, output_csv>>
    /\ UNCHANGED notScraper

\* the loop ends: grid_points is exhausted, or the call limit is reached
LoopExit ==
    /\ spc = "loop"
    /\ idx > Len(points) \/ BudgetReached(api_calls)
    /\ spc' = "final"
    /\ UNCHANGED <<cfg, lat, lon, lon_step, points, loopVars>>
    /\ UNCHANGED notScraper

\* the final flush and the end of the script
FinalFlush ==
    /\ spc = "final"
    /\ output_csv' = IF rows_buffer # <<>>
                     THEN to_csv_append(output_csv, rows_buffer)
                     ELSE output_csv
    /\ spc' = "done"
    /\ UNCHANGED <<cfg, lat, lon, lon_step, points, idx, api_calls, queried,
                   failed, collected, rows_buffer>>
    /\ UNCHANGED notScraper

NextScraper ==
    \/ GridRow
    \/ GridPoint
    \/ GridRowEnd
    \/ GridReturn
    \/ CatalogCallReturns
    \/ CatalogCallRaises
    \/ LoopExit
    \/ FinalFlush

-----------------------------------------------------------------------------
(* demo/RestaurantSearchEngine.py *)

\* Similarities are integers in units of 1e-6, so that a mean of two scores
\* and the rounding to 4 decimals are both visible.  A place_id is the rank
\* of the identifier in the lexicographic order of the strings.

\* longest index the engine is constructed on
MaxIndex == 4

\* the queries: the text "a" and the text "b"
QueryA == <<"a">>
QueryB == <<"b">>

\* the embeddings stored in the index
Embeddings == {"e1", "e2", "e3", "e4", "e5"}

\* cosine_similarity of the embedding of a query and a stored embedding: a
\* fixed function of the two, with values in [-1, 1]
cosine_similarity(q, e) ==
    IF q = QueryA
    THEN CASE e = "e1" -> 900000
           [] e = "e2" -> 100000
           [] e = "e3" -> 510000
           [] e = "e4" -> -200000
           [] OTHER    -> 510040
    ELSE CASE e = "e1" -> 100000
           [] e = "e2" -> 900000
           [] e = "e3" -> -200000
           [] e = "e4" -> 510000
           [] OTHER    -> 300000

\* Series.round(4) on one float, in units of 1e-6
Round4(x) == ((x + 50) \div 100) * 100

\* one row of the index: a review of place p with embedding e
IndexRow(p, e) ==
    [place_id |-> p,
     place_name |-> IF p = 1 THEN <<"A">> ELSE <<"B">>,
     latitude |-> 10 * p,
     longitude |-> 15 * p,
     embedding |-> e]

IndexRows == {IndexRow(p, e) : p \in 1..2, e \in Embeddings}

RECURSIVE Indexes(_)
Indexes(n) ==
    IF n = 0 THEN {<<>>}
    ELSE LET shorter == Indexes(n - 1)
         IN  shorter \cup {Append(t, r) : t \in {u \in shorter : Len(u) = n - 1},
                                          r \in IndexRows}

\* similarities = cosine_similarity([input_embedding], self.embeddings_array)[0]
similarity_scores(frame, q) ==
    [k \in 1..Len(frame) |-> cosine_similarity(q, frame[k].embedding)]

RECURSIVE Ascending(_)
Ascending(S) ==
    IF S = {} THEN <<>>
    ELSE LET m == CHOOSE x \in S : \A y \in S : x <= y
         IN  <<m>> \o Ascending(S \ {m})

RECURSIVE SumSeq(_)
SumSeq(xs) == IF xs = <<>> THEN 0 ELSE xs[1] + SumSeq(Tail(xs))

RECURSIVE MaxSeq(_)
MaxSeq(xs) ==
    IF Len(xs) = 1 THEN xs[1]
    ELSE LET m == MaxSeq(Tail(xs)) IN IF xs[1] >= m THEN xs[1] ELSE m

\* mutant: the aggregation argument is ignored
AggFuncAlwaysMax(agg) == "max"

\* 'similarity_score': aggregation if aggregation in ['max', 'mean'] else 'max'
AggFunc(agg) == IF agg \in {"max", "mean"} THEN agg ELSE "max"

Aggregate(f, xs) == IF f = "mean" THEN SumSeq(xs) \div Len(xs) ELSE MaxSeq(xs)

\* df_result.groupby('place_id', as_index=False).agg(agg_dict): one row per
\* place_id, the keys in increasing order, name and coordinates of the first
\* row of the group, the scores of the group aggregated
groupby_agg(frame, scores, agg) ==
    LET keys == Ascending({frame[k].place_id : k \in 1..Len(frame)})
        rows(p) == SelectSeq([k \in 1..Len(frame) |-> k],
                             LAMBDA k : frame[k].place_id = p)
    IN  [i \in 1..Len(keys) |->
            LET g == rows(keys[i])
            IN  [place_id |-> keys[i],
                 place_name |-> frame[g[1]].place_name,
                 latitude |-> frame[g[1]].latitude,
                 longitude |-> frame[g[1]].longitude,
                 similarity_score |->
                     Aggregate(AggFunc(agg), [j \in 1..Len(g) |-> scores[g[j]]])]]

Orders(n) ==
    {f \in [1..n -> 1..n] : \A i, j \in 1..n : f[i] = f[j] => i = j}

\* .sort_values('similarity_score', ascending=False) with the default
\* kind='quicksort', which is not stable: every order of the rows that is
\* non-increasing in the score is a possible outcome
sort_values(rows) ==
    {[i \in 1..Len(rows) |-> rows[f[i]]] : f \in
        {g \in Orders(Len(rows)) :
            \A i \in 1..(Len(rows) - 1) :
                rows[g[i]].similarity_score >= rows[g[i + 1]].similarity_score}}

\* the rename of the columns, the similarity rounded to 4 decimals and
\* to_dict(orient="records")
to_records(rows) ==
    [i \in 1..Len(rows) |->
        [place_id |-> rows[i].place_id,
         name |-> rows[i].place_name,
         lat |-> rows[i].latitude,
         lng |-> rows[i].longitude,
         similarity |-> Round4(rows[i].similarity_score)]]

\* RestaurantSearchEngine.search: the outcomes of one call.  sklearn's
\* cosine_similarity raises ValueError on an embeddings array without rows.
search(frame, q, agg) ==
    IF Len(frame) = 0
    THEN {[raised |-> "ValueError", results |-> <<>>]}
    ELSE {[raised |-> "", results |-> to_records(r)] :
            r \in sort_values(groupby_agg(frame, similarity_scores(frame, q), agg))}

Aggregations == {"max", "mean", "median"}
NoPath == ""
RESULTS_PATH == "restaurants_similarity.json"

\* the engine constructed on an index: RestaurantSearchEngine.__init__
EngineConstructed ==
    /\ engine_df \in Indexes(MaxIndex)
    /\ results_file = <<>>
    /\ user_input = <<>>
    /\ aggregation = "max"
    /\ output_path = NoPath
    /\ json_result = <<>>
    /\ epc = "ready"

\* one call of search that returns: the file at output_path is written
\* when a path was given
SearchReturns ==
    /\ epc = "ready"
    /\ \E agg \in Aggregations, path \in {NoPath, RESULTS_PATH} :
         \E out \in search(engine_df, QueryA, agg) :
            /\ out.raised = ""
            /\ user_input' = QueryA
            /\ aggregation' = agg
            /\ output_path' = path
            /\ json_result' = out.results
            /\ results_file' = IF path = NoPath THEN results_file
                               ELSE out.results
            /\ epc' = "returned"
    /\ UNCHANGED engine_df
    /\ UNCHANGED notSearch

\* one call of search that raises
SearchRaises ==
    /\ epc = "ready"
    /\ \E agg \in Aggregations, path \in {NoPath, RESULTS_PATH} :
         \E out \in search(engine_df, QueryA, agg) :
            /\ out.raised # ""
            /\ user_input' = QueryA
            /\ aggregation' = agg
            /\ output_path' = path
            /\ epc' = out.raised
    /\ UNCHANGED <<engine_df, results_file, json_result>>
    /\ UNCHANGED notSearch

NextSearch ==
    \/ SearchReturns
    \/ SearchRaises

-----------------------------------------------------------------------------
(* backend/app.py *)

\* rows of the largest table the backend is started on
MaxTable == 2

\* the requests served concurrently by the threaded server
Requests == {1, 2}

\* the JSON body of a request: absent, or the text under 'query'
NoBody == <<"<None>">>
Bodies == {NoBody, <<>>, <<" ">>, QueryA, <<"b", " ">>}

\* df = pd.read_csv(DB_PATH) and review_embeddings, one per row: a table
\* with at least one review
BackendTables == {t \in Indexes(MaxTable) : Len(t) >= 1}

\* the column 'similarity_score' before the first search
NoColumn == <<>>

\* the module level of backend/app.py has run
BackendStarted ==
    /\ df \in BackendTables
    /\ similarity_score = NoColumn
    /\ b_pc = [t \in Requests |-> "waiting"]
    /\ b_query = [t \in Requests |-> <<>>]
    /\ b_similarities = [t \in Requests |-> <<>>]
    /\ b_response = [t \in Requests |-> [status |-> 0, results |-> <<>>]]

\* search, lines 46-50, on a request without a query: 400, or 500 when
\* request.get_json() is None
BackendRejects(t) ==
    /\ b_pc[t] = "waiting"
    /\ \E body \in Bodies :
         /\ body = NoBody \/ Strip(body) = <<>>
         /\ b_response' = [b_response EXCEPT ![t] =
                [status |-> IF body = NoBody THEN 500 ELSE 400,
                 results |-> <<>>]]
    /\ b_pc' = [b_pc EXCEPT ![t] = "done"]
    /\ UNCHANGED <<df, similarity_score, b_query, b_similarities>>
    /\ UNCHANGED notBackend

\* search, lines 46-58: the query is encoded and compared with the reviews
BackendScores(t) ==
    /\ b_pc[t] = "waiting"
    /\ \E body \in Bodies :
         /\ body # NoBody
         /\ Strip(body) # <<>>
         /\ b_query' = [b_query EXCEPT ![t] = Strip(body)]
         /\ b_similarities' = [b_similarities EXCEPT ![t] =
                                  similarity_scores(df, Strip(body))]
    /\ b_pc' = [b_pc EXCEPT ![t] = "scored"]
    /\ UNCHANGED <<df, similarity_score, b_response>>
    /\ UNCHANGED notBackend

\* search, line 61: df['similarity_score'] = similarities, on the global df
BackendAttaches(t) ==
    /\ b_pc[t] = "scored"
    /\ similarity_score' = b_similarities[t]
    /\ b_pc' = [b_pc EXCEPT ![t] = "attached"]
    /\ UNCHANGED <<df, b_query, b_similarities, b_response>>
    /\ UNCHANGED notBackend

\* search, lines 64-80: the global df is grouped on its column
\* 'similarity_score', sorted and returned
BackendResponds(t) ==
    /\ b_pc[t] = "attached"
    /\ \E r \in sort_values(groupby_agg(df, similarity_score, "max")) :
         b_response' = [b_response EXCEPT ![t] =
                           [status |-> 200, results |-> to_records(r)]]
    /\ b_pc' = [b_pc EXCEPT ![t] = "done"]
    /\ UNCHANGED <<df, similarity_score, b_query, b_similarities>>
    /\ UNCHANGED notBackend

NextBackend ==
    \/ \E t \in Requests : BackendRejects(t)
    \/ \E t \in Requests : BackendScores(t)
    \/ \E t \in Requests : BackendAttaches(t)
    \/ \E t \in Requests : BackendResponds(t)

-----------------------------------------------------------------------------
(* demo/heatmap_service.py (the same code is in demo/app.py) *)

\* Latitudes and longitudes are integers in units of 1e-4 degree and
\* thresholds in units of 1e-6, as the similarities.  The tiler divides the
\* viewport by tiles_per_side; the bounds of a tile are kept multiplied by
\* tiles_per_side and its centre by 2 * tiles_per_side (the field scale of a
\* tile or a point), so that they are exact integers.

\* entries of the largest table loaded at startup
MaxData == 2

\* grid_size=100 in get_heatmap
GRID_SIZE == 100

\* the tile budgets the tiler is called with directly
TileBudgets == {1, 2, 4, 5, 9}

\* one entry of restaurants_similarity.json
Entry(p, la, lo, sim) ==
    [place_id |-> p,
     name |-> IF p = 1 THEN <<"A">> ELSE <<"B">>,
     lat |-> la, lng |-> lo, similarity |-> sim]

Entries ==
    {Entry(1, 0, 0, 900000), Entry(1, 10, 15, 510000),
     Entry(2, 20, 30, 900000), Entry(2, 30, 6, 100000),
     Entry(2, 15, 20, -200000)}

RECURSIVE DataTables(_)
DataTables(n) ==
    IF n = 0 THEN {<<>>}
    ELSE LET shorter == DataTables(n - 1)
         IN  shorter \cup {Append(t, r) : t \in {u \in shorter : Len(u) = n - 1},
                                          r \in Entries}

\* int(np.sqrt(grid_size)), for grid_size >= 1
ISqrt(n) == CHOOSE k \in 1..n : k * k <= n /\ n < (k + 1) * (k + 1)

\* mutant: an entry exactly at the threshold is filtered out
FilteredAbove(data, similarity_threshold) ==
    SelectSeq(data, LAMBDA r : r.similarity > similarity_threshold)

\* filtered = [r for r in restaurant_data if r.get('similarity', 0) >= ...]
Filtered(data, similarity_threshold) ==
    SelectSeq(data, LAMBDA r : r.similarity >= similarity_threshold)

\* mutant: the upper bounds of a tile are inclusive
InTileClosed(r, n, lo_lat, hi_lat, lo_lng, hi_lng) ==
    /\ lo_lat <= r.lat * n /\ r.lat * n <= hi_lat
    /\ lo_lng <= r.lng * n /\ r.lng * n <= hi_lng

\* tile_min_lat <= r['lat'] < tile_max_lat and
\* tile_min_lng <= r['lng'] < tile_max_lng, the tile bounds times n
InTile(r, n, lo_lat, hi_lat, lo_lng, hi_lng) ==
    /\ lo_lat <= r.lat * n /\ r.lat * n < hi_lat
    /\ lo_lng <= r.lng * n /\ r.lng * n < hi_lng

\* the body of the two loops for tile (i, j)
Tile(filtered, bounds, n, i, j) ==
    LET tile_min_lat == bounds.min_lat * n + i * (bounds.max_lat - bounds.min_lat)
        tile_max_lat == bounds.min_lat * n
                           + (i + 1) * (bounds.max_lat - bounds.min_lat)
        tile_min_lng == bounds.min_lng * n + j * (bounds.max_lng - bounds.min_lng)
        tile_max_lng == bounds.min_lng * n
                           + (j + 1) * (bounds.max_lng - bounds.min_lng)
        count == Cardinality({k \in 1..Len(filtered) :
                     InTile(filtered[k], n, tile_min_lat, tile_max_lat,
                            tile_min_lng, tile_max_lng)})
    IN  [bounds |-> <<<<tile_min_lat, tile_min_lng>>,
                      <<tile_min_lat, tile_max_lng>>,
                      <<tile_max_lat, tile_max_lng>>,
                      <<tile_max_lat, tile_min_lng>>>>,
         center |-> <<tile_min_lat + tile_max_lat, tile_min_lng + tile_max_lng>>,
         count |-> count,
         scale |-> n]

\* mutant: a point is appended for every tile
HasPointAlways(tile) == TRUE

\* if count > 0
HasPoint(tile) == tile.count > 0

\* calculate_dynamic_grid_heatmap on the table data: heatmap_points and
\* tiles_data
calculate_dynamic_grid_heatmap(data, similarity_threshold, bounds, grid_size) ==
    LET filtered == Filtered(data, similarity_threshold)
        n == ISqrt(grid_size)
        tiles_data == [k \in 1..(n * n) |->
                          Tile(filtered, bounds, n, (k - 1) \div n, (k - 1) % n)]
        hot == SelectSeq(tiles_data, HasPoint)
    IN  [heatmap |-> [k \in 1..Len(hot) |->
                         [lat |-> hot[k].center[1], lng |-> hot[k].center[2],
                          weight |-> hot[k].count, scale |-> 2 * n]],
         tiles |-> tiles_data]

\* the viewports and thresholds the tiler is called with directly
Viewport(la0, la1, lo0, lo1) ==
    [min_lat |-> la0, max_lat |-> la1, min_lng |-> lo0, max_lng |-> lo1]

Viewports ==
    {Viewport(la[1], la[2], lo[1], lo[2]) :
        la \in {<<0, 30>>, <<10, 30>>, <<0, 0>>},
        lo \in {<<0, 30>>, <<15, 45>>}}

Thresholds == {0, 510000, 900001}

\* request.args: a parameter is absent or is a text
Missing == <<"<missing>">>

IsDigit(c) == c \in {"0", "1", "2", "3", "4", "5", "6", "7", "8", "9"}

DigitValue(c) ==
    CASE c = "0" -> 0 [] c = "1" -> 1 [] c = "2" -> 2 [] c = "3" -> 3
      [] c = "4" -> 4 [] c = "5" -> 5 [] c = "6" -> 6 [] c = "7" -> 7
      [] c = "8" -> 8 [] OTHER -> 9

\* the texts float() accepts, among those made of digits, letters, '.' and
\* '-': an optional sign, digits with at most one point, at least one digit
IsFloatText(s) ==
    LET body == IF s # <<>> /\ s[1] = "-" THEN Tail(s) ELSE s
    IN  /\ \A k \in 1..Len(body) : IsDigit(body[k]) \/ body[k] = "."
        /\ Cardinality({k \in 1..Len(body) : body[k] = "."}) <= 1
        /\ \E k \in 1..Len(body) : IsDigit(body[k])

RECURSIVE DigitsValue(_)
DigitsValue(ds) ==
    IF ds = <<>> THEN 0
    ELSE DigitsValue(SubSeq(ds, 1, Len(ds) - 1)) * 10 + DigitValue(ds[Len(ds)])

\* float(s) in units of 10^-decimals, for a text float() accepts
ParseFloat(s, decimals) ==
    LET negative == s[1] = "-"
        body == IF negative THEN Tail(s) ELSE s
        dots == {k \in 1..Len(body) : body[k] = "."}
        dot == IF dots = {} THEN Len(body) + 1 ELSE CHOOSE k \in dots : TRUE
        whole == SubSeq(body, 1, dot - 1)
        frac == [k \in 1..decimals |->
                    IF dot + k <= Len(body) THEN body[dot + k] ELSE "0"]
        value == DigitsValue(whole \o frac)
    IN  IF negative THEN 0 - value ELSE value

\* the query strings of the /api/heatmap requests: one well-formed request
\* and its variants
BaseArgs ==
    [threshold |-> <<"0", ".", "5">>,
     min_lat |-> <<"0">>, max_lat |-> <<"0", ".", "0", "0", "3">>,
     min_lng |-> <<"0">>, max_lng |-> <<"0", ".", "0", "0", "3">>]

ArgNames == {"threshold", "min_lat", "max_lat", "min_lng", "max_lng"}
BoundNames == {"min_lat", "max_lat", "min_lng", "max_lng"}

HeatmapArgs ==
    {BaseArgs}
    \cup {[BaseArgs EXCEPT ![f] = v] :
             f \in ArgNames, v \in {Missing, <<"x">>, <<>>}}
    \cup {[BaseArgs EXCEPT !.threshold = <<"-", "1">>],
          [BaseArgs EXCEPT !.threshold = <<"0", ".", "9", "1">>],
          [BaseArgs EXCEPT !.min_lat = <<"0", ".", "0", "0", "1">>],
          [BaseArgs EXCEPT !.max_lat = <<"0">>],
          [BaseArgs EXCEPT !.min_lng = <<"0", ".", "0", "0", "1", "5">>,
                           !.max_lng = <<"0", ".", "0", "0", "4", "5">>],
          [BaseArgs EXCEPT !.threshold = <<"x">>, !.min_lat = Missing]}

\* request.args.get('threshold', 0.0) as float() receives it
ThresholdText(args) ==
    IF args.threshold = Missing THEN <<"0", ".", "0">> ELSE args.threshold

\* all(k in request.args for k in ['min_lat', 'max_lat', 'min_lng', 'max_lng'])
BoundsPresent(args) == \A k \in BoundNames : args[k] # Missing

\* mutant: a request without its bounds is served on an empty viewport
StatusOfLenient(args) ==
    IF ~IsFloatText(ThresholdText(args)) THEN 500
    ELSE IF \E k \in BoundNames : args[k] # Missing /\ ~IsFloatText(args[k])
    THEN 500
    ELSE 200

\* the status get_heatmap answers a request with: a float() that raises
\* ValueError is not caught, the request is answered 500
StatusOf(args) ==
    IF ~IsFloatText(ThresholdText(args)) THEN 500
    ELSE IF ~BoundsPresent(args) THEN 400
    ELSE IF \E k \in BoundNames : ~IsFloatText(args[k]) THEN 500
    ELSE 200

NoResponse ==
    [status |-> 0, heatmap |-> <<>>, tiles |-> <<>>, count |-> 0,
     threshold |-> 0]

\* the server of heatmap_service.py started: restaurants_similarity.json
\* loaded
HeatmapStarted ==
    /\ restaurant_data \in DataTables(MaxData)
    /\ h_pc = "waiting"
    /\ h_args = BaseArgs
    /\ h_table = <<>>
    /\ h_threshold = 0
    /\ h_bounds = Viewport(0, 0, 0, 0)
    /\ h_grid_size = GRID_SIZE
    /\ h_heatmap = <<>>
    /\ h_tiles = <<>>
    /\ h_response = NoResponse

\* calculate_dynamic_grid_heatmap called on its own
TilerCall ==
    /\ h_pc = "waiting"
    /\ \E t \in Thresholds, b \in Viewports, g \in TileBudgets :
         LET out == calculate_dynamic_grid_heatmap(restaurant_data, t, b, g)
         IN  /\ h_threshold' = t
             /\ h_bounds' = b
             /\ h_grid_size' = g
             /\ h_heatmap' = out.heatmap
             /\ h_tiles' = out.tiles
    /\ h_table' = restaurant_data
    /\ h_pc' = "returned"
    /\ UNCHANGED <<restaurant_data, h_args, h_response>>
    /\ UNCHANGED notHeatmap

\* get_heatmap on a request it does not serve: 400, or 500 when float()
\* raises
HeatmapRejects ==
    /\ h_pc = "waiting"
    /\ \E args \in HeatmapArgs :
         /\ StatusOf(args) # 200
         /\ h_args' = args
         /\ h_response' = [NoResponse EXCEPT !.status = StatusOf(args)]
    /\ h_pc' = "done"
    /\ UNCHANGED <<restaurant_data, h_table, h_threshold, h_bounds,
                   h_grid_size, h_heatmap, h_tiles>>
    /\ UNCHANGED notHeatmap

\* get_heatmap up to the return of calculate_dynamic_grid_heatmap, which
\* reads restaurant_data
HeatmapTiles ==
    /\ h_pc = "waiting"
    /\ \E args \in HeatmapArgs :
         /\ StatusOf(args) = 200
         /\ LET t == ParseFloat(ThresholdText(args), 6)
                b == [k \in BoundNames |-> ParseFloat(args[k], 4)]
                out == calculate_dynamic_grid_heatmap(restaurant_data, t, b,
                                                      GRID_SIZE)
            IN  /\ h_args' = args
                /\ h_threshold' = t
                /\ h_bounds' = b
                /\ h_heatmap' = out.heatmap
                /\ h_tiles' = out.tiles
    /\ h_grid_size' = GRID_SIZE
    /\ h_table' = restaurant_data
    /\ h_pc' = "tiled"
    /\ UNCHANGED <<restaurant_data, h_response>>
    /\ UNCHANGED notHeatmap

\* get_heatmap from filtered_count on: restaurant_data is read again
HeatmapResponds ==
    /\ h_pc = "tiled"
    /\ h_response' = [status |-> 200, heatmap |-> h_heatmap, tiles |-> h_tiles,
                      count |-> Len(Filtered(restaurant_data, h_threshold)),
                      threshold |-> h_threshold]
    /\ h_pc' = "done"
    /\ UNCHANGED <<restaurant_data, h_args, h_table, h_threshold, h_bounds,
                   h_grid_size, h_heatmap, h_tiles>>
    /\ UNCHANGED notHeatmap

NextHeatmap ==
    \/ TilerCall
    \/ HeatmapRejects
    \/ HeatmapTiles
    \/ HeatmapResponds

-----------------------------------------------------------------------------
(* demo/app.py *)

\* the indexes the demo server is started on: an empty one, and two with
\* reviews of both places
DemoIndexes ==
    {<<>>,
     <<IndexRow(1, "e1"), IndexRow(2, "e3")>>,
     <<IndexRow(2, "e4"), IndexRow(1, "e2"), IndexRow(1, "e5")>>}

\* restaurants_similarity.json opened for writing and not yet written: empty,
\* or holding a prefix of the new content
Truncated == <<"<truncated>">>

\* restaurants_similarity.json holding the content of one writer followed by
\* the end of the longer content of another
Garbled == <<"<garbled>">>

\* mutant: the query is taken as sent
QueryUnstripped(body) == body

\* query = data.get('query', '').strip()
QueryOf(body) == Strip(body)

\* the content of the file after request t writes w from offset 0: w when
\* t's own open was the last truncation; over the content of another writer
\* the outcome depends on the byte lengths, which the model does not carry
Written(content, w) ==
    IF content \in {Truncated, w} THEN {w} ELSE {w, Garbled}

\* the demo server started on an index, no results file yet
DemoStarted ==
    /\ engine_df \in DemoIndexes
    /\ results_file = <<>>
    /\ user_input = <<>>
    /\ aggregation = "max"
    /\ output_path = NoPath
    /\ json_result = <<>>
    /\ epc = "ready"
    /\ restaurant_data = <<>>
    /\ h_pc = "waiting"
    /\ h_args = BaseArgs
    /\ h_table = <<>>
    /\ h_threshold = 0
    /\ h_bounds = Viewport(0, 0, 0, 0)
    /\ h_grid_size = GRID_SIZE
    /\ h_heatmap = <<>>
    /\ h_tiles = <<>>
    /\ h_response = NoResponse
    /\ s_pc = [t \in Requests |-> "waiting"]
    /\ s_body = [t \in Requests |-> NoBody]
    /\ s_results = [t \in Requests |-> <<>>]
    /\ s_response = [t \in Requests |-> [status |-> 0, count |-> 0,
                                         query |-> <<>>]]

\* what a step of a search request leaves alone besides the file and the
\* table
demoRest == <<engine_df, user_input, aggregation, output_path, json_result,
              epc, h_pc, h_args, h_table, h_threshold, h_bounds, h_grid_size,
              h_heatmap, h_tiles, h_response>>

\* search, lines 102-106, on a request without a query: 400, or 500 when
\* request.get_json() is None
DemoSearchRejects(t) ==
    /\ s_pc[t] = "waiting"
    /\ \E body \in Bodies :
         /\ body = NoBody \/ QueryOf(body) = <<>>
         /\ s_body' = [s_body EXCEPT ![t] = body]
         /\ s_response' = [s_response EXCEPT ![t] =
                [status |-> IF body = NoBody THEN 500 ELSE 400,
                 count |-> 0, query |-> <<>>]]
    /\ s_pc' = [s_pc EXCEPT ![t] = "done"]
    /\ UNCHANGED <<results_file, restaurant_data, s_results>>
    /\ UNCHANGED <<demoRest, notDemo>>

\* search, lines 102-112 and 123-124: search_engine.search raises, the
\* request is answered 500
DemoSearchRaises(t) ==
    /\ s_pc[t] = "waiting"
    /\ \E body \in Bodies :
         /\ body # NoBody
         /\ QueryOf(body) # <<>>
         /\ \E out \in search(engine_df, QueryOf(body), "max") :
               out.raised # ""
         /\ s_body' = [s_body EXCEPT ![t] = body]
         /\ s_response' = [s_response EXCEPT ![t] =
                [status |-> 500, count |-> 0, query |-> QueryOf(body)]]
    /\ s_pc' = [s_pc EXCEPT ![t] = "done"]
    /\ UNCHANGED <<results_file, restaurant_data, s_results>>
    /\ UNCHANGED <<demoRest, notDemo>>

\* search, lines 102-112: search_engine.search has computed its result and
\* to_json has opened restaurants_similarity.json for writing
DemoSearchOpens(t) ==
    /\ s_pc[t] = "waiting"
    /\ \E body \in Bodies :
         /\ body # NoBody
         /\ QueryOf(body) # <<>>
         /\ \E out \in search(engine_df, QueryOf(body), "max") :
               /\ out.raised = ""
               /\ s_results' = [s_results EXCEPT ![t] = out.results]
         /\ s_body' = [s_body EXCEPT ![t] = body]
    /\ results_file' = Truncated
    /\ s_pc' = [s_pc EXCEPT ![t] = "writing"]
    /\ UNCHANGED <<restaurant_data, s_response>>
    /\ UNCHANGED <<demoRest, notDemo>>

\* to_json writes the result and closes the file
DemoSearchWrites(t) ==
    /\ s_pc[t] = "writing"
    /\ results_file' \in Written(results_file, s_results[t])
    /\ s_pc' = [s_pc EXCEPT ![t] = "written"]
    /\ UNCHANGED <<restaurant_data, s_body, s_results, s_response>>
    /\ UNCHANGED <<demoRest, notDemo>>

\* search, lines 115-121: load_restaurant_data reads the file and publishes
\* its content as restaurant_data
DemoSearchLoads(t) ==
    /\ s_pc[t] = "written"
    /\ results_file \notin {Truncated, Garbled}
    /\ restaurant_data' = results_file
    /\ s_response' = [s_response EXCEPT ![t] =
           [status |-> 200, count |-> Len(s_results[t]),
            query |-> QueryOf(s_body[t])]]
    /\ s_pc' = [s_pc EXCEPT ![t] = "done"]
    /\ UNCHANGED <<results_file, s_body, s_results>>
    /\ UNCHANGED <<demoRest, notDemo>>

\* search, lines 115 and 123-124: json.load raises on a file that another
\* request is writing, the request is answered 500
DemoSearchLoadFails(t) ==
    /\ s_pc[t] = "written"
    /\ results_file \in {Truncated, Garbled}
    /\ s_response' = [s_response EXCEPT ![t] =
           [status |-> 500, count |-> 0, query |-> QueryOf(s_body[t])]]
    /\ s_pc' = [s_pc EXCEPT ![t] = "done"]
    /\ UNCHANGED <<results_file, restaurant_data, s_body, s_results>>
    /\ UNCHANGED <<demoRest, notDemo>>

NextDemo ==
    \/ \E t \in Requests : DemoSearchRejects(t)
    \/ \E t \in Requests : DemoSearchRaises(t)
    \/ \E t \in Requests : DemoSearchOpens(t)
    \/ \E t \in Requests : DemoSearchWrites(t)
    \/ \E t \in Requests : DemoSearchLoads(t)
    \/ \E t \in Requests : DemoSearchLoadFails(t)
    \/ HeatmapRejects
    \/ HeatmapTiles
    \/ HeatmapResponds

-----------------------------------------------------------------------------
(* services/data_process.py: one row per review becomes one row per place *)

\* longest INPUT_CSV of the model
MaxRaw == 3

\* the fields pd.read_csv takes for a missing value (na_values), among the
\* texts of the model: the empty field and 'NA'
NaTexts == {<<>>, <<"N", "A">>}

\* a text field as read_csv returns it, and as to_csv writes a value
read_text(field) == IF field \in NaTexts THEN NaN ELSE field
write_text(value) == IF isna(value) THEN <<>> ELSE value

\* the place_id field likewise
read_id(field) == IF field = "" THEN NoId ELSE field
write_id(value) == IF value = NoId THEN "" ELSE value

\* pd.read_csv(path)
read_csv(file) ==
    [k \in 1..Len(file) |->
        [file[k] EXCEPT !.place_id = read_id(@),
                        !.place_name = read_text(@),
                        !.review_text = read_text(@)]]

\* frame.to_csv(path, index=False)
to_csv(frame) ==
    [k \in 1..Len(frame) |->
        [frame[k] EXCEPT !.place_id = write_id(@),
                         !.place_name = write_text(@),
                         !.review_text = write_text(@)]]

\* df.dropna(subset=["place_id", "review_text"])
dropna_reviews(frame) ==
    SelectSeq(frame, LAMBDA r : r.place_id # NoId /\ ~isna(r.review_text))

\* df.drop_duplicates(subset=["place_id", "review_text"]): the first row of
\* every (place_id, review_text) pair stays
RECURSIVE drop_duplicates_from(_, _)
drop_duplicates_from(frame, seen) ==
    IF frame = <<>> THEN <<>>
    ELSE LET key == <<Head(frame).place_id, Head(frame).review_text>> IN
         IF key \in seen
         THEN drop_duplicates_from(Tail(frame), seen)
         ELSE <<Head(frame)>> \o drop_duplicates_from(Tail(frame), seen \cup {key})

drop_duplicates(frame) == drop_duplicates_from(frame, {})

\* "\n\n".join(series)
RECURSIVE aggregate_reviews(_)
aggregate_reviews(series) ==
    IF series = <<>> THEN <<>>
    ELSE IF Len(series) = 1 THEN series[1]
         ELSE series[1] \o <<"NL", "NL">> \o aggregate_reviews(Tail(series))

\* the place_ids of the model in the order groupby sorts them
PlaceIdOrder == <<"p1", "p2", "p3">>

\* the group keys of groupby("place_id"): sorted, the missing key left out
group_keys(frame) ==
    SelectSeq(PlaceIdOrder, LAMBDA id : \E k \in DOMAIN frame : frame[k].place_id = id)

\* the rows of one group, in the order of the frame
group_of(frame, id) == SelectSeq(frame, LAMBDA r : r.place_id = id)

\* one column of a frame
column(frame, name) == [k \in 1..Len(frame) |-> frame[k][name]]

\* the aggregation "first" on a text column: the first value not missing
first(series) ==
    LET present == SelectSeq(series, LAMBDA v : ~isna(v))
    IN IF present = <<>> THEN NaN ELSE present[1]

\* df_dedup.groupby("place_id", as_index=False).agg({...}); no latitude or
\* longitude of the model is missing
groupby_place_id(frame) ==
    LET keys == group_keys(frame) IN
    [k \in 1..Len(keys) |->
        LET g == group_of(frame, keys[k]) IN
        [place_id |-> keys[k],
         place_name |-> first(column(g, "place_name")),
         latitude |-> g[1].latitude,
         longitude |-> g[1].longitude,
         google_maps_uri |-> first(column(g, "google_maps_uri")),
         reviews_uri |-> first(column(g, "reviews_uri")),
         review_text |-> aggregate_reviews(column(g, "review_text"))]]

\* df_dedup.groupby("place_id")["review_text"].count().values
review_counts(frame) ==
    LET keys == group_keys(frame) IN
    [k \in 1..Len(keys) |->
        Len(SelectSeq(column(group_of(frame, keys[k]), "review_text"),
                      LAMBDA v : ~isna(v)))]

\* df_agg["review_count"] = values
with_review_count(frame, values) ==
    [k \in 1..Len(frame) |->
        [f \in DOMAIN frame[k] \cup {"review_count"} |->
            IF f = "review_count" THEN values[k] ELSE frame[k][f]]]

\* backend/app.py: df['review_text'].str.replace('\n', ' ', regex=False)
replace_newlines(text) ==
    IF isna(text) THEN NaN
    ELSE [k \in 1..Len(text) |-> IF text[k] = "NL" THEN " " ELSE text[k]]

\* backend/app.py, remove_emoji: "" for a missing text, else every character
\* outside \w, \s and .,!?;:'- removed
app_remove_emoji(text) ==
    IF isna(text) THEN <<>>
    ELSE SelectSeq(text, LAMBDA c : \/ IsWordChar(c) \/ IsSpaceChar(c)
                                    \/ c \in {".", ",", "!", "?", ";", ":", "'", "-"})

\* model.encode(texts): one vector per text, a function of the text
encode(texts) == [k \in 1..Len(texts) |-> <<"vector", texts[k]>>]

\* one row of INPUT_CSV as IDscraper_test.py writes it
RawRow(id, name, la, lo, text) ==
    [place_id |-> id, place_name |-> name, latitude |-> la, longitude |-> lo,
     review_text |-> text, google_maps_uri |-> <<"m", id>>,
     reviews_uri |-> <<"r", id>>]

RawRows ==
    { RawRow("p2", <<"B">>, 8, 0, <<"x">>),
      RawRow("p1", <<"A">>, 0, 0, <<"x">>),
      RawRow("p1", <<"A">>, 0, 0, <<"y">>),
      \* the review "x" of p1 again, returned by another circle without a name
      RawRow("p1", <<>>, 0, 0, <<"x">>),
      \* a review without text
      RawRow("p3", <<"a">>, 16, 0, <<>>),
      \* a review whose text is 'NA'
      RawRow("p2", <<"B">>, 8, 0, <<"N", "A">>),
      \* no place_id
      RawRow("", <<"A">>, 0, 0, <<"y">>) }

RECURSIVE RawFiles(_)
RawFiles(n) ==
    IF n = 0 THEN {<<>>}
    ELSE LET shorter == RawFiles(n - 1) IN
         shorter \cup {Append(f, r) : f \in {g \in shorter : Len(g) = n - 1}, r \in RawRows}

\* INPUT_CSV exists, the script has not started
AggregationStarted ==
    /\ input_csv \in RawFiles(MaxRaw)
    /\ reviews_df = <<>>
    /\ df_dedup = <<>>
    /\ df_agg = <<>>
    /\ aggregated_csv = <<>>
    /\ app_df = <<>>
    /\ review_embeddings = <<>>
    /\ a_pc = "start"

\* df = pd.read_csv(INPUT_CSV)
LoadRawData ==
    /\ a_pc = "start"
    /\ reviews_df' = read_csv(input_csv)
    /\ a_pc' = "read"
    /\ UNCHANGED <<input_csv, df_dedup, df_agg, aggregated_csv, app_df,
                   review_embeddings>>
    /\ UNCHANGED notAgg

\* df = df.dropna(subset=["place_id", "review_text"])
DropMissing ==
    /\ a_pc = "read"
    /\ reviews_df' = dropna_reviews(reviews_df)
    /\ a_pc' = "clean"
    /\ UNCHANGED <<input_csv, df_dedup, df_agg, aggregated_csv, app_df,
                   review_embeddings>>
    /\ UNCHANGED notAgg

\* df_dedup = df.drop_duplicates(...), saved to DEDUP_CSV
RemoveDuplicateReviews ==
    /\ a_pc = "clean"
    /\ df_dedup' = drop_duplicates(reviews_df)
    /\ a_pc' = "dedup"
    /\ UNCHANGED <<input_csv, reviews_df, df_agg, aggregated_csv, app_df,
                   review_embeddings>>
    /\ UNCHANGED notAgg

\* df_agg = df_dedup.groupby(...).agg(...)
AggregateByRestaurant ==
    /\ a_pc = "dedup"
    /\ df_agg' = groupby_place_id(df_dedup)
    /\ a_pc' = "grouped"
    /\ UNCHANGED <<input_csv, reviews_df, df_dedup, aggregated_csv, app_df,
                   review_embeddings>>
    /\ UNCHANGED notAgg

\* df_agg["review_count"] = ..., and df_agg saved to AGGREGATED_CSV
AddReviewCount ==
    /\ a_pc = "grouped"
    /\ LET counted == with_review_count(df_agg, review_counts(df_dedup)) IN
        /\ df_agg' = counted
        /\ aggregated_csv' = to_csv(counted)
    /\ a_pc' = "saved"
    /\ UNCHANGED <<input_csv, reviews_df, df_dedup, app_df, review_embeddings>>
    /\ UNCHANGED notAgg

\* backend/app.py: df = pd.read_csv(DB_PATH) and the cleaning of review_text
BackendLoadsTable ==
    /\ a_pc = "saved"
    /\ app_df' = [k \in 1..Len(aggregated_csv) |->
                    [read_csv(aggregated_csv)[k] EXCEPT
                        !.review_text = app_remove_emoji(replace_newlines(@))]]
    /\ a_pc' = "loaded"
    /\ UNCHANGED <<input_csv, reviews_df, df_dedup, df_agg, aggregated_csv,
                   review_embeddings>>
    /\ UNCHANGED notAgg

\* backend/app.py: review_embeddings = model.encode(df['review_text'].tolist())
BackendEncodes ==
    /\ a_pc = "loaded"
    /\ review_embeddings' = encode(column(app_df, "review_text"))
    /\ a_pc' = "encoded"
    /\ UNCHANGED <<input_csv, reviews_df, df_dedup, df_agg, aggregated_csv,
                   app_df>>
    /\ UNCHANGED notAgg

NextAgg ==
    \/ LoadRawData
    \/ DropMissing
    \/ RemoveDuplicateReviews
    \/ AggregateByRestaurant
    \/ AddReviewCount
    \/ BackendLoadsTable
    \/ BackendEncodes

-----------------------------------------------------------------------------
(* backend/update_db.py: restaurants of a zone added to the table *)

\* update_db calls in one run
MaxUpdates == 3

\* the slices [:20] of the places and [:5] of the reviews
NEARBY_LIMIT == 20
REVIEW_LIMIT == 5

\* seq[:n]
Prefix(seq, n) == SubSeq(seq, 1, IF Len(seq) < n THEN Len(seq) ELSE n)

\* the zone of a row of a table that has no column 'zone'
NoZone == <<"<no column>">>

\* a table: its rows, and whether 'zone' is among its columns
Table(has_zone, rows) == [has_zone |-> has_zone, rows |-> rows]

\* the response of the Nearby Search request: HTTP status, the status field
\* of the JSON body when it reports an error, and 'results'; status 0 stands
\* for requests.get raising
NearbyResponse(status, error, results) ==
    [status |-> status, error |-> error, results |-> results]

NoNearby == NearbyResponse(0, "", <<>>)

NearbyResponses ==
    { \* no place found
      NearbyResponse(200, "", <<>>),
      NearbyResponse(200, "", <<"n1">>),
      NearbyResponse(200, "", <<"n1", "n2">>),
      \* the key is rejected: HTTP 200, a body without 'results'
      NearbyResponse(200, "REQUEST_DENIED", <<>>),
      \* an HTTP failure
      NearbyResponse(403, "", <<>>),
      \* no response at all
      NearbyResponse(0, "ConnectionError", <<>>) }

\* the Place Details response of one place: a body with 'result', a body
\* without it (an error reported as JSON), or no JSON body at all
DetailsResponses == {"ok", "error", "raises"}

\* the responses of the Geocoding request
GeocodeResponses == {"ok", "no_results", "http_error", "raises"}

\* 'result' of the Place Details body of a place
DetailsOf(place_id) ==
    IF place_id = "n1"
    THEN [name |-> <<"B">>, lat |-> 8, lng |-> 0, url |-> <<"u", "n1">>,
          reviews |-> <<<<"x">>>>]
    ELSE [name |-> <<"a">>, lat |-> 16, lng |-> 0, url |-> <<"u", "n2">>,
          reviews |-> <<<<"x">>, <<"y">>>>]

\* basic_scrape, the body of the loop: the dictionary appended for one place
restaurant(place_id, details) ==
    LET found == details = "ok"
        reviews == IF found THEN Prefix(DetailsOf(place_id).reviews, REVIEW_LIMIT)
                   ELSE <<>>
    IN [place_id |-> place_id,
        name |-> IF found THEN DetailsOf(place_id).name ELSE <<>>,
        latitude |-> IF found THEN DetailsOf(place_id).lat ELSE 0,
        longitude |-> IF found THEN DetailsOf(place_id).lng ELSE 0,
        google_maps_uri |-> <<"cid", place_id>>,
        reviews_uri |-> IF found THEN DetailsOf(place_id).url ELSE <<>>,
        review_text |-> Join(reviews),
        review_count |-> Len(reviews)]

\* basic_scrape: the list returned, or an exception of requests.get or of
\* response.json()
basic_scrape(nearby, details) ==
    IF nearby.status = 0 THEN [raised |-> TRUE, restaurants |-> <<>>]
    ELSE IF nearby.status # 200 THEN [raised |-> FALSE, restaurants |-> <<>>]
    ELSE LET places == Prefix(nearby.results, NEARBY_LIMIT) IN
         IF \E k \in DOMAIN places : details[k] = "raises"
         THEN [raised |-> TRUE, restaurants |-> <<>>]
         ELSE [raised |-> FALSE,
               restaurants |-> [k \in DOMAIN places |->
                                   restaurant(places[k], details[k])]]

NoScrape == [raised |-> FALSE, restaurants |-> <<>>]

\* the requests basic_scrape issues: one Nearby Search, then one Place
\* Details per place until one of them raises
ScrapeRequests(nearby, details) ==
    LET places == IF nearby.status = 200
                  THEN Prefix(nearby.results, NEARBY_LIMIT) ELSE <<>>
        issued == {k \in DOMAIN places :
                      \A j \in 1..(k - 1) : details[j] # "raises"}
    IN <<"nearby">> \o [k \in 1..Cardinality(issued) |-> "details"]

\* geocode_zone: the coordinates, or ValueError / an exception of requests
geocode_zone(response) ==
    [raised |-> response # "ok", coord |-> <<485800, 77500>>]

\* db['zone'].str.lower(): a missing zone stays missing
str_lower(value) == IF isna(value) THEN NaN ELSE MapLower(value)

\* mutant: the zone compared as it is written
zone_exists_case_sensitive(table, zone_name) ==
    IF ~table.has_zone \/ table.rows = <<>> THEN FALSE
    ELSE \E k \in DOMAIN table.rows : table.rows[k].zone = zone_name

zone_exists(table, zone_name) ==
    IF ~table.has_zone \/ table.rows = <<>> THEN FALSE
    ELSE \E k \in DOMAIN table.rows :
            str_lower(table.rows[k].zone) = MapLower(zone_name)

format_restaurant_data(raw_data, zone_name) ==
    [k \in 1..Len(raw_data) |->
        [place_id |-> raw_data[k].place_id,
         place_name |-> raw_data[k].name,
         latitude |-> raw_data[k].latitude,
         longitude |-> raw_data[k].longitude,
         google_maps_uri |-> raw_data[k].google_maps_uri,
         reviews_uri |-> raw_data[k].reviews_uri,
         review_text |-> raw_data[k].review_text,
         review_count |-> raw_data[k].review_count,
         zone |-> zone_name]]

\* if 'zone' not in db.columns: db['zone'] = ''
with_zone_column(table) ==
    IF table.has_zone THEN table
    ELSE Table(TRUE, [k \in 1..Len(table.rows) |->
                        [table.rows[k] EXCEPT !.zone = <<>>]])

\* pd.concat([db, new_data], ignore_index=True)
concat(table, new_data) == Table(TRUE, table.rows \o new_data)

\* a row of the table update_db is handed
ExistingRow(id, zone) ==
    [place_id |-> id, place_name |-> <<"A">>, latitude |-> 0, longitude |-> 0,
     google_maps_uri |-> <<"m", id>>, reviews_uri |-> <<"r", id>>,
     review_text |-> <<"x">>, review_count |-> 1, zone |-> zone]

\* load_db: the empty table when the file is missing, the aggregated table
\* without a column 'zone', and a table saved after an update for zone "a"
UpdateTables ==
    { Table(TRUE, <<>>),
      Table(FALSE, <<ExistingRow("p1", NoZone)>>),
      Table(TRUE, <<ExistingRow("p1", NaN), ExistingRow("p2", <<"a">>)>>) }

\* zone_name: None or '', and three names, two of them differing in case only
ZoneNames == {<<>>, <<"a">>, <<"A">>, <<"b">>}

\* the table is loaded, update_db not yet called
UpdateStarted ==
    /\ u_db \in UpdateTables
    /\ u_before = u_db
    /\ u_zone_name = <<>>
    /\ u_pc = "ready"
    /\ u_calls = <<>>
    /\ u_nearby = NoNearby
    /\ u_details = <<>>
    /\ u_scrape = NoScrape
    /\ u_result = u_db
    /\ u_log = "loaded"
    /\ u_added = {}
    /\ u_n = 0

\* what every call of update_db does on entry
Entered(zone_name) ==
    /\ u_pc = "ready"
    /\ u_zone_name' = zone_name
    /\ u_before' = u_db
    /\ u_n' = u_n + 1
    /\ u_nearby' = NoNearby
    /\ u_details' = <<>>
    /\ u_scrape' = NoScrape
    /\ UNCHANGED u_added

\* update_db, lines 142-144: no zone_name
UpdateNoZone ==
    /\ \E zone_name \in ZoneNames :
         /\ zone_name = <<>>
         /\ Entered(zone_name)
    /\ u_calls' = <<>>
    /\ u_result' = u_db
    /\ u_log' = "no_zone"
    /\ u_pc' = "returned"
    /\ UNCHANGED u_db
    /\ UNCHANGED notUpdate

\* update_db, lines 147-149: the zone is in the table already
UpdateZonePresent ==
    /\ \E zone_name \in ZoneNames :
         /\ zone_name # <<>>
         /\ zone_exists(u_db, zone_name)
         /\ Entered(zone_name)
    /\ u_calls' = <<>>
    /\ u_result' = u_db
    /\ u_log' = "present"
    /\ u_pc' = "returned"
    /\ UNCHANGED u_db
    /\ UNCHANGED notUpdate

\* update_db, line 155: geocode_zone, and the except clause when it raises
UpdateGeocodes ==
    /\ \E zone_name \in ZoneNames :
         /\ zone_name # <<>>
         /\ ~zone_exists(u_db, zone_name)
         /\ Entered(zone_name)
    /\ u_calls' = <<"geocode">>
    /\ \E response \in GeocodeResponses :
         IF geocode_zone(response).raised
         THEN u_log' = "error" /\ u_pc' = "returned"
         ELSE u_log' = "coord" /\ u_pc' = "geocoded"
    /\ u_result' = u_db
    /\ UNCHANGED u_db
    /\ UNCHANGED notUpdate

\* update_db, lines 159-183: basic_scrape and what follows it
UpdateScrapes ==
    /\ u_pc = "geocoded"
    /\ \E nearby \in NearbyResponses :
       \E details \in [1..Len(Prefix(nearby.results, NEARBY_LIMIT)) -> DetailsResponses] :
         LET raw_data == basic_scrape(nearby, details) IN
         /\ u_nearby' = nearby
         /\ u_details' = details
         /\ u_scrape' = raw_data
         /\ u_calls' = u_calls \o ScrapeRequests(nearby, details)
         /\ IF raw_data.raised
            THEN u_log' = "error" /\ u_result' = u_db /\ UNCHANGED u_db
            ELSE IF raw_data.restaurants = <<>>
            THEN u_log' = "no_data" /\ u_result' = u_db /\ UNCHANGED u_db
            ELSE /\ u_log' = "added"
                 /\ u_db' = with_zone_column(u_db)
                 /\ u_result' = concat(with_zone_column(u_db),
                                       format_restaurant_data(raw_data.restaurants,
                                                              u_zone_name))
    /\ u_pc' = "returned"
    /\ UNCHANGED <<u_before, u_zone_name, u_added, u_n>>
    /\ UNCHANGED notUpdate

\* db = update_db(db, ...): the caller goes on with the table returned
UpdateAgain ==
    /\ u_pc = "returned"
    /\ u_n < MaxUpdates
    /\ u_db' = u_result
    /\ u_added' = IF u_log = "added"
                  THEN u_added \cup {MapLower(u_zone_name)} ELSE u_added
    /\ u_pc' = "ready"
    /\ UNCHANGED <<u_before, u_zone_name, u_calls, u_nearby, u_details,
                   u_scrape, u_result, u_log, u_n>>
    /\ UNCHANGED notUpdate

NextUpdate ==
    \/ UpdateNoZone
    \/ UpdateZonePresent
    \/ UpdateGeocodes
    \/ UpdateScrapes
    \/ UpdateAgain

-----------------------------------------------------------------------------
(* Specifications *)

\* the deduplicator at rest: no table loaded
IdleDedup ==
    /\ db = <<>>
    /\ clean_db = <<>>
    /\ dpc = "idle"
    /\ pass = 1
    /\ dedup_in = <<>>
    /\ group = NoGroup
    /\ origin = <<>>
    /\ first_out = <<>>
    /\ log = <<>>

\* the scraper script not started
IdleScraper ==
    /\ cfg = [lat_min |-> LAT_MIN, lat_max |-> LAT_MIN,
              lon_min |-> LON_MIN, lon_max |-> LON_MIN,
              step_meters |-> 450, radius |-> 600]
    /\ lat = LAT_MIN
    /\ lon = LON_MIN
    /\ lon_step = 0
    /\ points = <<>>
    /\ spc = "idle"
    /\ idx = 1
    /\ api_calls = 0
    /\ queried = <<>>
    /\ failed = <<>>
    /\ collected = <<>>
    /\ rows_buffer = <<>>
    /\ output_csv = <<>>

\* the search engine not constructed
IdleSearch ==
    /\ engine_df = <<>>
    /\ results_file = <<>>
    /\ user_input = <<>>
    /\ aggregation = "max"
    /\ output_path = NoPath
    /\ json_result = <<>>
    /\ epc = "idle"

\* the backend server not started
IdleBackend ==
    /\ df = <<>>
    /\ similarity_score = NoColumn
    /\ b_pc = [t \in Requests |-> "idle"]
    /\ b_query = [t \in Requests |-> <<>>]
    /\ b_similarities = [t \in Requests |-> <<>>]
    /\ b_response = [t \in Requests |-> [status |-> 0, results |-> <<>>]]

\* no heatmap server started
IdleHeatmap ==
    /\ restaurant_data = <<>>
    /\ h_pc = "idle"
    /\ h_args = BaseArgs
    /\ h_table = <<>>
    /\ h_threshold = 0
    /\ h_bounds = Viewport(0, 0, 0, 0)
    /\ h_grid_size = GRID_SIZE
    /\ h_heatmap = <<>>
    /\ h_tiles = <<>>
    /\ h_response = NoResponse

\* no search request of the demo server
IdleDemo ==
    /\ s_pc = [t \in Requests |-> "idle"]
    /\ s_body = [t \in Requests |-> NoBody]
    /\ s_results = [t \in Requests |-> <<>>]
    /\ s_response = [t \in Requests |-> [status |-> 0, count |-> 0,
                                         query |-> <<>>]]

\* the aggregation script not started
IdleAgg ==
    /\ input_csv = <<>>
    /\ reviews_df = <<>>
    /\ df_dedup = <<>>
    /\ df_agg = <<>>
    /\ aggregated_csv = <<>>
    /\ app_df = <<>>
    /\ review_embeddings = <<>>
    /\ a_pc = "idle"

\* update_db not in use
IdleUpdate ==
    /\ u_db = Table(TRUE, <<>>)
    /\ u_before = Table(TRUE, <<>>)
    /\ u_zone_name = <<>>
    /\ u_pc = "idle"
    /\ u_calls = <<>>
    /\ u_nearby = NoNearby
    /\ u_details = <<>>
    /\ u_scrape = NoScrape
    /\ u_result = Table(TRUE, <<>>)
    /\ u_log = "idle"
    /\ u_added = {}
    /\ u_n = 0

\* every program but the deduplicator, the scraper, the engine, the backend
\* and the heatmap server respectively at rest
IdleButDedup ==
    IdleScraper /\ IdleSearch /\ IdleBackend /\ IdleHeatmap /\ IdleDemo
        /\ IdleAgg /\ IdleUpdate
IdleButScraper ==
    IdleDedup /\ IdleSearch /\ IdleBackend /\ IdleHeatmap /\ IdleDemo
        /\ IdleAgg /\ IdleUpdate
IdleButSearch ==
    IdleDedup /\ IdleScraper /\ IdleBackend /\ IdleHeatmap /\ IdleDemo
        /\ IdleAgg /\ IdleUpdate
IdleButBackend ==
    IdleDedup /\ IdleScraper /\ IdleSearch /\ IdleHeatmap /\ IdleDemo
        /\ IdleAgg /\ IdleUpdate
IdleButHeatmap ==
    IdleDedup /\ IdleScraper /\ IdleSearch /\ IdleBackend /\ IdleDemo
        /\ IdleAgg /\ IdleUpdate

\* backend/data_process.py run on a batch of records
InitDedup == TableLoaded /\ IdleButDedup

SpecDedup == InitDedup /\ [][NextDedup]_vars

\* IDscraper_test.py run under a configuration
InitScraper == ScriptStarted /\ IdleButScraper

SpecScraper == InitScraper /\ [][NextScraper]_vars

\* RestaurantSearchEngine constructed on an index and called once
InitSearch == EngineConstructed /\ IdleButSearch

SpecSearch == InitSearch /\ [][NextSearch]_vars

\* backend/app.py serving two concurrent /api/search requests
InitBackend == BackendStarted /\ IdleButBackend

SpecBackend == InitBackend /\ [][NextBackend]_vars

\* demo/heatmap_service.py: the tiler called on its own, or one /api/heatmap
\* request
InitHeatmap == HeatmapStarted /\ IdleButHeatmap

SpecHeatmap == InitHeatmap /\ [][NextHeatmap]_vars

\* demo/app.py serving two /api/search requests and one /api/heatmap
\* request concurrently
InitDemo ==
    DemoStarted /\ IdleDedup /\ IdleScraper /\ IdleBackend /\ IdleAgg /\ IdleUpdate

SpecDemo == InitDemo /\ [][NextDemo]_vars

\* services/data_process.py run on a raw file, then backend/app.py started
InitAgg ==
    /\ AggregationStarted
    /\ IdleDedup /\ IdleScraper /\ IdleSearch /\ IdleBackend /\ IdleHeatmap
    /\ IdleDemo /\ IdleUpdate

SpecAgg == InitAgg /\ [][NextAgg]_vars

\* update_db called up to MaxUpdates times on a loaded table
InitUpdate ==
    /\ UpdateStarted
    /\ IdleDedup /\ IdleScraper /\ IdleSearch /\ IdleBackend /\ IdleHeatmap
    /\ IdleDemo /\ IdleAgg

SpecUpdate == InitUpdate /\ [][NextUpdate]_vars

Init ==
    InitDedup \/ InitScraper \/ InitSearch \/ InitBackend \/ InitHeatmap
        \/ InitDemo \/ InitAgg \/ InitUpdate

Next ==
    NextDedup \/ NextScraper \/ NextSearch \/ NextBackend \/ NextHeatmap
        \/ NextDemo \/ NextAgg \/ NextUpdate

Spec == Init /\ [][Next]_vars

-----------------------------------------------------------------------------
(* Properties of the deduplicator (backend/data_process.py) *)

\* remove_duplicates has run on dedup_in; group, origin and clean_db are its
\* result (after the dropna of data_process when dpc = "processed")
Deduplicated == dpc \in {"deduplicated", "processed"}

\* the rule of the specification: identical normalized names and coordinates
\* less than 0.001 degree apart in latitude and in longitude
SamePlace(r1, r2) ==
    /\ normalize_name(r1.place_name) = normalize_name(r2.place_name)
    /\ Abs(r1.latitude - r2.latitude) < PROXIMITY
    /\ Abs(r1.longitude - r2.longitude) < PROXIMITY

\* the rows of dedup_in merged into row a, in increasing order
Members(a) ==
    SelectSeq([k \in 1..Len(dedup_in) |-> k], LAMBDA j : group[j] = a)

\* the reviews of one review_text: its lines, stripped, the empty ones left out
ReviewLines(text) ==
    IF isna(text) THEN <<>>
    ELSE LET pieces == Split(text)
         IN SelectSeq([k \in 1..Len(pieces) |-> Strip(pieces[k])],
                      LAMBDA l : l # <<>>)

\* the reviews of the rows listed in members, in the order of the batch
RECURSIVE GroupReviews(_)
GroupReviews(members) ==
    IF members = <<>> THEN <<>>
    ELSE ReviewLines(dedup_in[Head(members)].review_text) \o GroupReviews(Tail(members))

FirstIndex(seq, x) == CHOOSE i \in DOMAIN seq : seq[i] = x /\ \A j \in 1..(i - 1) : seq[j] # x

C2_Idempotent ==
    (dpc = "processed" /\ pass = 2) => clean_db = first_out

\* C3 (as claimed): the review_count of a merged row is the number of distinct
\* reviews of its group
C3_CountIsDistinctReviews ==
    Deduplicated =>
        \A k \in DOMAIN clean_db :
            Len(Members(origin[k])) > 1 =>
                clean_db[k].review_count
                    = Cardinality(Range(GroupReviews(Members(origin[k]))))

\* the grouping of the batch obtained by taking its rows in the order perm,
\* as sets of rows of dedup_in
GroupingUnder(perm) ==
    LET n == Len(dedup_in)
        g == remove_duplicates([k \in 1..n |-> dedup_in[perm[k]]]).group
    IN {{perm[k] : k \in {m \in 1..n : g[m] = a}} : a \in Range(g)}

\* C4 (as claimed): every permutation of the batch yields the same number of
\* entities and the same grouping of the records
C4_OrderIndependent ==
    Deduplicated =>
        \A perm \in Permutations(DOMAIN dedup_in) :
            GroupingUnder(perm) = GroupingUnder([k \in DOMAIN dedup_in |-> k])

\* C5 (as claimed): a record without place_id or without place_name is not
\* in the output of data_process
C5_MissingKeyDropped ==
    (dpc = "processed" /\ pass = 1) =>
        \A i \in DOMAIN db :
            (db[i].place_id = NoId \/ isna(db[i].place_name)) =>
                i \notin Range(origin)

\* C6: the surviving row of a group is its first-seen record with the name,
\* coordinates, place_id and URIs untouched, and the merged review text lists
\* every distinct review of the group once, in order of first appearance
C6_FirstSeenWins ==
    Deduplicated =>
        \A k \in DOMAIN clean_db :
            LET a == origin[k]
                members == Members(a)
                reviews == GroupReviews(members)
                merged == ReviewLines(clean_db[k].review_text)
            IN /\ \A j \in Range(members) : a <= j
               /\ clean_db[k].place_id = dedup_in[a].place_id
               /\ clean_db[k].place_name = dedup_in[a].place_name
               /\ clean_db[k].latitude = dedup_in[a].latitude
               /\ clean_db[k].longitude = dedup_in[a].longitude
               /\ clean_db[k].google_maps_uri = dedup_in[a].google_maps_uri
               /\ clean_db[k].reviews_uri = dedup_in[a].reviews_uri
               /\ Len(members) > 1 =>
                      /\ Range(merged) = Range(reviews)
                      /\ \A p, q \in DOMAIN merged :
                             p < q => /\ merged[p] # merged[q]
                                      /\ FirstIndex(reviews, merged[p])
                                             < FirstIndex(reviews, merged[q])

\* C6 witness: a group of two records with different place_id and different
\* raw names was merged, and a review of the later record repeats one of the
\* first-seen record
C6_Witness ==
    /\ Deduplicated
    /\ \E k \in DOMAIN clean_db :
           LET members == Members(origin[k])
               reviews == GroupReviews(members)
           IN /\ Len(members) > 1
              /\ \E j \in Range(members) :
                     /\ dedup_in[j].place_id # clean_db[k].place_id
                     /\ dedup_in[j].place_name # clean_db[k].place_name
              /\ Cardinality(Range(reviews)) < Len(reviews)
              /\ Cardinality(Range(reviews)) > 1

-----------------------------------------------------------------------------
(* Properties of the grid sampler and of the ingestion run (IDscraper_test.py) *)

Min(a, b) == IF a < b THEN a ELSE b

\* squared ground distance in metres between two locations given in units of
\* 1e-4 degree (equirectangular, at the latitude of the first)
DistanceSq(la1, lo1, la2, lo2) ==
    LET dy == (Abs(la1 - la2) * METERS_PER_DEGREE) \div 10000
        dx == (Abs(lo1 - lo2) * MetersPerDegreeLon(la1)) \div 10000
    IN dy * dy + dx * dx

\* the location lies within the search radius of a grid point
Covered(la, lo) ==
    \E i \in DOMAIN points :
        DistanceSq(la, lo, points[i][1], points[i][2]) <= cfg.radius * cfg.radius

\* generate_grid has just returned
GridReturned == spc = "loop" /\ idx = 1 /\ queried = <<>>

\* the ingestion run is over, normally or not
RunOver == spc \in {"done", "aborted"}

\* C7 (as claimed): with a zero or negative step generate_grid builds no
\* point: it fails at once, and no catalog call is issued
C7_InvalidStepRejected ==
    cfg.step_meters <= 0 => (points = <<>> /\ queried = <<>>)

\* C8 (as claimed): for a positive step smaller than the box span and a
\* radius not smaller than the step, every location of the box, its northern
\* and eastern edges and its corners included, is within the radius of a
\* grid point
C8_GridCoversBox ==
    ( /\ GridReturned
      /\ cfg.step_meters > 0
      /\ meters_to_lat(cfg.step_meters) < cfg.lat_max - cfg.lat_min
      /\ meters_to_lon(cfg.step_meters, cfg.lat_min) < cfg.lon_max - cfg.lon_min
      /\ cfg.radius >= cfg.step_meters )
    => \A la \in cfg.lat_min..cfg.lat_max, lo \in cfg.lon_min..cfg.lon_max :
           Covered(la, lo)

\* C9: the catalog is never called more than MAX_API_CALLS times, the points
\* queried are the first points of the grid in grid order, a run that goes
\* through has queried min(number of grid points, MAX_API_CALLS) of them, and
\* at its end the rows collected are in the output file
C9_CallBudget ==
    /\ api_calls <= MAX_API_CALLS
    /\ Len(queried) <= MAX_API_CALLS
    /\ Len(queried) <= Len(points)
    /\ \A i \in DOMAIN queried : queried[i] = points[i]
    /\ spc \in {"final", "done"} =>
           Len(queried) = Min(Len(points), MAX_API_CALLS)
    /\ spc = "done" => \E old \in InitialCsv : output_csv = old \o collected

\* C9 witness: the grid has more points than the limit allows, the run was
\* cut off at the limit, and the rows still in the buffer were written
C9_Witness ==
    /\ spc = "done"
    /\ Len(points) > MAX_API_CALLS
    /\ api_calls = MAX_API_CALLS
    /\ rows_buffer # <<>>
    /\ \E old \in InitialCsv : output_csv = old \o collected

\* C10 (as claimed): when the run is over, also after a catalog call failed,
\* the remaining sampling points have been queried up to the call limit and
\* the rows collected are in the output file
C10_FailureSkipped ==
    RunOver =>
        /\ Len(queried) >= Min(Len(points), MAX_API_CALLS)
        /\ \E old \in InitialCsv : output_csv = old \o collected

-----------------------------------------------------------------------------
(* Properties of the search engine (demo/RestaurantSearchEngine.py) *)

\* the search call has returned json_result
Returned == epc = "returned"

\* position in the index of the first review of place p
FirstSeen(p) ==
    CHOOSE k \in 1..Len(engine_df) :
        /\ engine_df[k].place_id = p
        /\ \A j \in 1..(k - 1) : engine_df[j].place_id # p

\* the result is sorted by similarity, highest first
SortedDescending ==
    \A i, j \in 1..Len(json_result) :
        i < j => json_result[i].similarity >= json_result[j].similarity

\* C13: the result of a search is sorted by similarity descending, and
\* entities of equal similarity appear in the order in which they were first
\* seen in the index
C13_SortedTiesFirstSeen ==
    Returned =>
        /\ SortedDescending
        /\ \A i, j \in 1..Len(json_result) :
              (i < j /\ json_result[i].similarity = json_result[j].similarity)
                  => FirstSeen(json_result[i].place_id)
                        < FirstSeen(json_result[j].place_id)

\* the similarities of the reviews of place p to the query of the call
OwnScores(p) ==
    {<<k, cosine_similarity(user_input, engine_df[k].embedding)>> :
        k \in {j \in 1..Len(engine_df) : engine_df[j].place_id = p}}

RECURSIVE Total(_)
Total(S) ==
    IF S = {} THEN 0
    ELSE LET x == CHOOSE y \in S : TRUE IN x[2] + Total(S \ {x})

\* the score of place p under the aggregation of the call
Score(p) ==
    IF aggregation = "mean"
    THEN Total(OwnScores(p)) \div Cardinality(OwnScores(p))
    ELSE CHOOSE m \in {x[2] : x \in OwnScores(p)} :
            \A x \in OwnScores(p) : x[2] <= m

\* the index of the example: a place with reviews scoring 0.9 and 0.1, and a
\* place with two reviews scoring 0.51
ExampleIndex ==
    <<IndexRow(1, "e1"), IndexRow(1, "e2"),
      IndexRow(2, "e3"), IndexRow(2, "e3")>>

\* C14: under 'max' and under 'mean' every place of the index is returned
\* once, with the maximum, respectively the mean, of the similarities of its
\* own reviews, a place of higher score before a place of lower score; the
\* place scoring [0.9, 0.1] is first under 'max' and second under 'mean'
\* against the place scoring [0.51, 0.51]
C14_AggregationModes ==
    (Returned /\ aggregation \in {"max", "mean"}) =>
        /\ {json_result[i].place_id : i \in 1..Len(json_result)}
              = {engine_df[k].place_id : k \in 1..Len(engine_df)}
        /\ \A i, j \in 1..Len(json_result) :
              /\ json_result[i].similarity
                    = Round4(Score(json_result[i].place_id))
              /\ json_result[i].place_id = json_result[j].place_id => i = j
              /\ Score(json_result[i].place_id) > Score(json_result[j].place_id)
                    => i < j
        /\ engine_df = ExampleIndex =>
              json_result[1].place_id = IF aggregation = "max" THEN 1 ELSE 2

\* the example searched under 'mean': the place scoring [0.51, 0.51] is first
C14_Witness ==
    /\ Returned
    /\ engine_df = ExampleIndex
    /\ aggregation = "mean"
    /\ json_result[1].place_id = 2
    /\ json_result[1].similarity = 510000
    /\ json_result[2].similarity = 500000

\* C16: a search of an empty index returns the empty result, it does not
\* raise
C16_EmptyIndexEmptyResult ==
    (Len(engine_df) = 0 /\ epc \notin {"idle", "ready"}) =>
        (Returned /\ json_result = <<>>)

\* C17: every similarity returned lies in [0, 1]
C17_SimilarityInUnitInterval ==
    Returned =>
        \A i \in 1..Len(json_result) :
            /\ json_result[i].similarity >= 0
            /\ json_result[i].similarity <= 1000000

-----------------------------------------------------------------------------
(* Properties of the backend endpoint (backend/app.py) *)

\* the possible bodies of the response to a search of the loaded table for
\* query q, served alone
OwnResults(q) ==
    {to_records(r) :
        r \in sort_values(groupby_agg(df, similarity_scores(df, q), "max"))}

\* every request answered 200 carries the scores and the ranking of its own
\* query
ScoresFromOwnQuery ==
    \A t \in Requests :
        (b_pc[t] = "done" /\ b_response[t].status = 200)
            => b_response[t].results \in OwnResults(b_query[t])

\* the loaded table is as it was read: no column was added to it
TableUnchanged == similarity_score = NoColumn

\* C11: two concurrent /api/search requests over the same loaded table each
\* get the scores and the ranking of their own query, and a search leaves the
\* shared table unchanged
C11_ConcurrentSearchesIndependent ==
    /\ ScoresFromOwnQuery
    /\ TableUnchanged

-----------------------------------------------------------------------------
(* Properties of the heatmap tiler and of /api/heatmap                      *)
(* (demo/heatmap_service.py, demo/app.py)                                   *)

\* calculate_dynamic_grid_heatmap has returned h_heatmap and h_tiles for the
\* table h_table, h_threshold, h_bounds and h_grid_size
Computed ==
    \/ h_pc \in {"returned", "tiled"}
    \/ h_pc = "done" /\ h_response.status = 200

\* the number of tiles along one side of the grid
Side == CHOOSE n \in 1..h_grid_size : Len(h_tiles) = n * n

\* the entries of the table at or above the threshold
Passing == {e \in 1..Len(h_table) : h_table[e].similarity >= h_threshold}

\* the rectangle of tile k as the tile record gives it
LoLat(k) == h_tiles[k].bounds[1][1]
HiLat(k) == h_tiles[k].bounds[3][1]
LoLng(k) == h_tiles[k].bounds[1][2]
HiLng(k) == h_tiles[k].bounds[3][2]

\* the half-open rectangle of tile k contains entry e; n is Side
InBox(e, k, n) ==
    /\ LoLat(k) <= h_table[e].lat * n /\ h_table[e].lat * n < HiLat(k)
    /\ LoLng(k) <= h_table[e].lng * n /\ h_table[e].lng * n < HiLng(k)

\* the tiles whose half-open rectangle contains entry e
Owners(e, n) == {k \in 1..Len(h_tiles) : InBox(e, k, n)}

\* the count of every tile is the number of passing entries its rectangle
\* contains, so an entry is counted in the tiles that own it and in no other
CountsAreOwners(n) ==
    \A k \in 1..Len(h_tiles) :
        h_tiles[k].count = Cardinality({e \in Passing : InBox(e, k, n)})

OnLatBoundary(e, n) ==
    \E k \in 1..Len(h_tiles) : h_table[e].lat * n \in {LoLat(k), HiLat(k)}

OnLngBoundary(e, n) ==
    \E k \in 1..Len(h_tiles) : h_table[e].lng * n \in {LoLng(k), HiLng(k)}

\* entry e lies on a tile boundary, inside the viewport or on its edge
OnBoundary(e, n) ==
    /\ OnLatBoundary(e, n) \/ OnLngBoundary(e, n)
    /\ h_bounds.min_lat <= h_table[e].lat /\ h_table[e].lat <= h_bounds.max_lat
    /\ h_bounds.min_lng <= h_table[e].lng /\ h_table[e].lng <= h_bounds.max_lng

\* entry e lies on the northern or on the eastern edge of the viewport
OnUpperEdge(e) ==
    h_table[e].lat = h_bounds.max_lat \/ h_table[e].lng = h_bounds.max_lng

\* the viewport has a positive extent on both axes
ProperViewport ==
    h_bounds.min_lat < h_bounds.max_lat /\ h_bounds.min_lng < h_bounds.max_lng

\* tile k is the only tile counting entry e, and the boundaries e lies on
\* are lower bounds of k
CountedOnceInLowerTile(e, k, n) ==
    /\ Owners(e, n) = {k}
    /\ OnLatBoundary(e, n) => LoLat(k) = h_table[e].lat * n
    /\ OnLngBoundary(e, n) => LoLng(k) = h_table[e].lng * n

HotTiles ==
    SelectSeq([k \in 1..Len(h_tiles) |-> k], LAMBDA k : h_tiles[k].count > 0)

\* C19: the tiler returns floor(sqrt(tile_budget))^2 tile records, each with
\* its centre in the middle of its rectangle, and one point record per tile
\* of positive count, with the count as weight and the centre as position
C19_TilesAndPoints ==
    Computed =>
        /\ \E n \in 1..h_grid_size :
              /\ n * n <= h_grid_size
              /\ h_grid_size < (n + 1) * (n + 1)
              /\ Len(h_tiles) = n * n
        /\ \A k \in 1..Len(h_tiles) :
              h_tiles[k].center = <<LoLat(k) + HiLat(k), LoLng(k) + HiLng(k)>>
        /\ Len(h_heatmap) = Len(HotTiles)
        /\ \A m \in 1..Len(h_heatmap) :
              /\ h_heatmap[m].weight = h_tiles[HotTiles[m]].count
              /\ h_heatmap[m].lat = h_tiles[HotTiles[m]].center[1]
              /\ h_heatmap[m].lng = h_tiles[HotTiles[m]].center[2]

\* a budget that is not a square: 5 gives 4 tiles, one of them with a point
C19_Witness ==
    /\ Computed
    /\ h_grid_size = 5
    /\ Len(h_tiles) = 4
    /\ Len(h_heatmap) = 1
    /\ h_heatmap[1].weight = 2

\* one of the four bounds of the request is missing or is not a number
BadBounds ==
    \E k \in BoundNames : h_args[k] = Missing \/ ~IsFloatText(h_args[k])

\* C20: a heatmap request with a missing or malformed bound is answered 400,
\* a request with four valid bounds is answered 200
C20_BoundsValidated ==
    h_pc = "done" =>
        h_response.status = IF BadBounds THEN 400 ELSE 200

-----------------------------------------------------------------------------
(* Properties of the demo server (demo/app.py) *)

\* every /api/heatmap response counts the entries of the version of
\* restaurant_data its tiles were computed from
TilesAndCountOfOneVersion ==
    (h_pc = "done" /\ h_response.status = 200) =>
        /\ h_response.tiles
              = calculate_dynamic_grid_heatmap(h_table, h_threshold, h_bounds,
                                               h_grid_size).tiles
        /\ h_response.count = Len(Filtered(h_table, h_threshold))

\* the results of the searches the server can be asked for
CompleteResults ==
    {out.results : out \in UNION {search(engine_df, QueryOf(body), "max") :
                                     body \in Bodies \ {NoBody}}}

\* restaurant_data is the table of the start or the complete result of one
\* search
TableIsOneSearch == restaurant_data = <<>> \/ restaurant_data \in CompleteResults

\* C12: under every interleaving of /api/search and /api/heatmap requests,
\* the tiles and the count of a heatmap response come from the same version
\* of restaurant_data, and restaurant_data is the complete result of a single
\* search
C12_OneCompleteVersion ==
    /\ TilesAndCountOfOneVersion
    /\ TableIsOneSearch

\* the body carries a query that is empty or only whitespace
Blank(body) ==
    /\ body # NoBody
    /\ \A k \in 1..Len(body) : IsSpaceChar(body[k])

\* request t is answered 400 and nothing else changes
RejectedInPlace(t) ==
    /\ s_pc'[t] = "done"
    /\ s_response'[t].status = 400
    /\ s_results'[t] = s_results[t]
    /\ results_file' = results_file
    /\ restaurant_data' = restaurant_data
    /\ UNCHANGED searchVars

\* C15: the step that serves a search request with an empty or whitespace
\* query answers 400 and changes neither the results file nor restaurant_data
\* nor the engine, and the request never reaches the engine afterwards
C15_EmptyQueryRejected ==
    /\ [][\A t \in Requests :
             (s_pc[t] = "waiting" /\ s_pc'[t] # "waiting" /\ Blank(s_body'[t]))
                 => RejectedInPlace(t)]_vars
    /\ [](\A t \in Requests :
             (s_pc[t] \notin {"idle", "waiting"} /\ Blank(s_body[t]))
                 => (s_pc[t] = "done" /\ s_response[t].status = 400
                       /\ s_results[t] = <<>>))

\* a whitespace query rejected while the table loaded by the other request
\* is in place
C15_Witness ==
    \E t \in Requests :
        /\ s_pc[t] = "done"
        /\ s_body[t] = <<" ">>
        /\ s_response[t].status = 400
        /\ restaurant_data # <<>>
        /\ results_file = restaurant_data

-----------------------------------------------------------------------------
(* IDscraper_test.py: the order of the grid and the buffering of rows *)

\* the points of generate_grid so far are in row-major order: latitude never
\* decreases, and where it stays the same longitude strictly increases
RowMajor ==
    \A i \in 1..(Len(points) - 1) :
        \/ points[i + 1][1] > points[i][1]
        \/ points[i + 1][1] = points[i][1] /\ points[i + 1][2] > points[i][2]

\* every point of generate_grid so far lies inside the bounding box
InsideBox ==
    \A i \in DOMAIN points :
        /\ cfg.lat_min <= points[i][1] /\ points[i][1] <= cfg.lat_max
        /\ cfg.lon_min <= points[i][2] /\ points[i][2] <= cfg.lon_max

\* the grid as a function of the arguments alone: row r (from 0) lies r
\* latitude steps north of lat_min, and its k-th point k - 1 longitude steps
\* east of lon_min; defined for a positive step
RowOfGrid(c, la) ==
    LET st == meters_to_lon(c.step_meters, la)
        n  == ((c.lon_max - c.lon_min) \div st) + 1
    IN [k \in 1..n |-> <<la, c.lon_min + (k - 1) * st>>]

RECURSIVE RowsOfGrid(_, _)
RowsOfGrid(c, la) ==
    IF la > c.lat_max THEN <<>>
    ELSE RowOfGrid(c, la) \o RowsOfGrid(c, la + meters_to_lat(c.step_meters))

GridOf(c) == RowsOfGrid(c, c.lat_min)

\* C24: with a positive step the points of generate_grid are at every moment
\* in row-major order (rows south to north, longitudes strictly increasing
\* within a row) and inside the bounding box, and the list returned is the
\* one list determined by the arguments, so two calls with the same arguments
\* return the identical list; a call that returns had a positive step
C24_GridRowMajorDeterministic ==
    /\ cfg.step_meters > 0 => (RowMajor /\ InsideBox)
    /\ GridReturned => (cfg.step_meters > 0 /\ points = GridOf(cfg))

\* generate_grid has returned a grid of several rows of several points
C24_Witness ==
    /\ GridReturned
    /\ \E i, j, k \in DOMAIN points :
          /\ points[i][1] = points[j][1] /\ points[i][2] < points[j][2]
          /\ points[k][1] > points[i][1]

\* both spans of the bounding box are smaller than one step of the grid; the
\* spans are in 1e-4 degree, the step in metres
SmallerThanStep(c) ==
    /\ c.step_meters > 0
    /\ c.lat_min <= c.lat_max
    /\ c.lon_min <= c.lon_max
    /\ (c.lat_max - c.lat_min) * METERS_PER_DEGREE < c.step_meters * 10000
    /\ (c.lon_max - c.lon_min) * MetersPerDegreeLon(c.lat_min) < c.step_meters * 10000

\* C25: for a bounding box whose spans are both smaller than one step,
\* generate_grid builds the south-west corner and no other point, and
\* returns exactly that one point
C25_SmallBoxOnePoint ==
    SmallerThanStep(cfg) =>
        /\ Len(points) <= 1
        /\ points # <<>> => points[1] = <<cfg.lat_min, cfg.lon_min>>
        /\ GridReturned => Len(points) = 1

\* generate_grid has returned for a box with both spans positive and smaller
\* than one step
C25_Witness ==
    /\ GridReturned
    /\ SmallerThanStep(cfg)
    /\ cfg.lat_max > cfg.lat_min
    /\ cfg.lon_max > cfg.lon_min
    /\ points = <<<<cfg.lat_min, cfg.lon_min>>>>

\* the rows of OUTPUT_CSV beyond those an earlier run left there
Appended(old) == SubSeq(output_csv, Len(old) + 1, Len(output_csv))

\* C26: in a run whose catalog calls all return, at every step the rows
\* appended to the file followed by the rows in the buffer are the rows
\* collected so far in collection order, and when the run is over the file
\* holds the old rows followed by every collected row exactly once
C26_BufferLosesNothing ==
    \E old \in InitialCsv :
        /\ SubSeq(output_csv, 1, Len(old)) = old
        /\ spc \in {"loop", "final"} => Appended(old) \o rows_buffer = collected
        /\ spc = "done" => Appended(old) = collected

\* a run is over in which the buffer was flushed in the loop and again at
\* the end, into a file that held a row before
C26_Witness ==
    /\ spc = "done"
    /\ output_csv # <<>>
    /\ output_csv[1] = OldRow
    /\ Len(collected) > FLUSH_ROWS
    /\ rows_buffer # <<>>
    /\ Len(rows_buffer) < Len(collected)

-----------------------------------------------------------------------------
(* backend/data_process.py: no valid place is lost *)

\* row i of the input table has a place_id and a place_name
ValidRow(i) == db[i].place_id # NoId /\ ~isna(db[i].place_name)

\* C27 (as claimed): for every input row of data_process with a place_id and
\* a place_name the output holds that row or a duplicate of it (identical
\* normalized name, coordinates less than 0.001 degree apart), also when the
\* batch holds rows without place_id or place_name
C27_NoValidPlaceLost ==
    (dpc = "processed" /\ pass = 1) =>
        \A i \in DOMAIN db :
            ValidRow(i) => \E k \in DOMAIN clean_db : SamePlace(db[i], clean_db[k])

-----------------------------------------------------------------------------
(* demo/heatmap_service.py: the tiles count the entries of the viewport *)

\* entry e lies in the half-open viewport [min_lat, max_lat) x [min_lng, max_lng)
InViewport(e) ==
    /\ h_bounds.min_lat <= h_table[e].lat /\ h_table[e].lat < h_bounds.max_lat
    /\ h_bounds.min_lng <= h_table[e].lng /\ h_table[e].lng < h_bounds.max_lng

\* the sum of the counts of all tiles
TotalCount == SumSeq([k \in 1..Len(h_tiles) |-> h_tiles[k].count])

-----------------------------------------------------------------------------
(* services/data_process.py and backend/app.py: entity table and embeddings *)

\* the script has built and saved the aggregated table
Aggregated == a_pc \in {"saved", "loaded", "encoded"}

\* the distinct place_ids of the raw file
PlaceIdsOf(file) == {file[k].place_id : k \in DOMAIN file} \ {""}

\* the elements of a sequence, each kept at its first appearance
RECURSIVE Distinct(_, _)
Distinct(seq, seen) ==
    IF seq = <<>> THEN <<>>
    ELSE IF Head(seq) \in seen THEN Distinct(Tail(seq), seen)
         ELSE <<Head(seq)>> \o Distinct(Tail(seq), seen \cup {Head(seq)})

\* the distinct reviews of place p in the raw file, in first-appearance
\* order; a row whose review_text field is empty carries no review
ReviewsOfPlace(file, p) ==
    Distinct(column(SelectSeq(file, LAMBDA r : r.place_id = p /\ r.review_text # <<>>),
                    "review_text"), {})

\* row k of df_agg is the entity of place p as the claim describes it
EntityOf(k, p) ==
    /\ df_agg[k].place_id = p
    /\ df_agg[k].review_text = aggregate_reviews(ReviewsOfPlace(input_csv, p))
    /\ df_agg[k].review_count = Len(ReviewsOfPlace(input_csv, p))

\* C21 (as claimed): the aggregated table has exactly one row per distinct
\* place_id of the raw one-row-per-review data; its review_text holds each
\* distinct review of the place once, in first-appearance order, joined by
\* the paragraph separator, and its review_count is the number of those
\* reviews, however often the same review was returned
C21_OneRowPerPlace ==
    Aggregated =>
        /\ Len(df_agg) = Cardinality(PlaceIdsOf(input_csv))
        /\ \A p \in PlaceIdsOf(input_csv) : \E k \in DOMAIN df_agg : EntityOf(k, p)

\* the embedding records of the entity in row k: review_embeddings is
\* aligned with the rows of df
EmbeddingsOf(k) ==
    {i \in DOMAIN review_embeddings : app_df[i].place_id = app_df[k].place_id}

\* C22 (as claimed): the index holds one embedding per review, so an entity
\* with review_count n has n embedding records
C22_OneEmbeddingPerReview ==
    a_pc = "encoded" =>
        \A k \in DOMAIN app_df :
            Cardinality(EmbeddingsOf(k)) = app_df[k].review_count

-----------------------------------------------------------------------------
(* backend/update_db.py: failures, existing rows and repeated zones *)

\* update_db has returned
Updated == u_pc = "returned"

\* the current call issued the Nearby Search request
Scraped == Updated /\ u_calls # <<>> /\ u_calls # <<"geocode">>

\* the catalog call failed: no response, an HTTP status other than 200, or
\* an error reported in the body
CatalogFailed == u_nearby.status # 200 \/ u_nearby.error # ""

\* the catalog answered that there is no place
NoPlacesFound ==
    u_nearby.status = 200 /\ u_nearby.error = "" /\ u_nearby.results = <<>>

\* C23 (as claimed): basic_scrape returns an empty sequence when no place
\* is found, a failed catalog call has another outcome than that, and
\* update_db does not answer a failed call the way it answers a zone without
\* restaurants
C23_FailureDistinguishable ==
    Scraped =>
        /\ NoPlacesFound => (u_scrape = NoScrape /\ u_log = "no_data")
        /\ CatalogFailed => (u_scrape # NoScrape /\ u_log # "no_data")

\* a request of the scrape failed: the Nearby Search, or the Place Details
\* of one of the places
ScrapeFailed ==
    Scraped /\ (CatalogFailed \/ \E k \in DOMAIN u_details : u_details[k] # "ok")

\* the cases in which the claim has the table returned as it was handed in
NothingToAdd ==
    \/ u_zone_name = <<>>
    \/ zone_exists(u_before, u_zone_name)
    \/ u_calls = <<"geocode">>
    \/ ScrapeFailed
    \/ Scraped /\ NoPlacesFound

\* C28 (as claimed): the rows of the table handed to update_db are, unchanged
\* and in the same order, a prefix of the table returned, and the table
\* returned equals the table handed in when no zone is given, the zone is
\* present, geocoding or scraping fails, or the scrape finds nothing
C28_ExistingRowsUntouched ==
    Updated =>
        /\ Len(u_before.rows) <= Len(u_result.rows)
        /\ SubSeq(u_result.rows, 1, Len(u_before.rows)) = u_before.rows
        /\ NothingToAdd => u_result = u_before

\* C29: once a call of update_db has added rows for a zone, a later call for
\* that zone name in any letter case issues no request and returns the table
\* as it was handed in, whatever calls were made in between
C29_ZoneAddedOnce ==
    (Updated /\ MapLower(u_zone_name) \in u_added) =>
        /\ u_calls = <<>>
        /\ u_result = u_before
        /\ u_db = u_before

\* a zone added by an earlier call is asked for again, written in another
\* case than the one its rows carry
C29_Witness ==
    /\ Updated
    /\ MapLower(u_zone_name) \in u_added
    /\ \A k \in DOMAIN u_before.rows : u_before.rows[k].zone # u_zone_name
    /\ u_log = "present"

====
